---------------------------- MODULE Spec2Model ----------------------------
(***************************************************************************)
(* State-machine model of the echo-ai voice client's orchestration layer:  *)
(*   - the session transport      (echo-ai/src/hooks/useWebSocket.ts)      *)
(*   - the pause/cooldown detector (echo-ai/src/hooks/useSilenceDetection) *)
(*   - the orchestrator glue       (echo-ai/src/components/VoiceAssistant) *)
(*   - the snapshot minimisation   (cleanTranscript / getRecentTurns)      *)
(* Each component has its own specification (SpecTransport, SpecPause,     *)
(* SpecSnapshot). SpecPause and SpecSnapshot see the transport as a single *)
(* session that is up or down; variables a specification does not use stay *)
(* at their initial values.                                                *)
(***************************************************************************)
EXTENDS Integers, Sequences, FiniteSets, TLC

VARIABLES
    \* ---- session transport (useWebSocket.ts) ----
    sockets,            \* live WebSocket objects: id -> readyState
    wsRef,              \* wsRef.current: a socket id, or 0 for null
    refTimer,           \* delay of the pending timer held in reconnectTimeoutRef, 0 if none is pending
    orphanTimers,       \* pending reconnect timers no longer held in the ref
    reconnectAttempts,  \* reconnectAttemptsRef.current
    isConnected,        \* React state
    isConnecting,       \* React state
    error,              \* React state
    wire,               \* number of frames handed to WebSocket.send (at most MaxWire counted)
    \* ---- transport history (observation only) ----
    userDisconnected,   \* disconnect() was called and connect() not since
    userCalls,          \* connect()/disconnect() calls so far, the mount's connect() included (at most 2 counted)
    closesSinceOpen,    \* involuntary closes since the last successful open
    lastCloseCode,      \* close code seen by the latest onclose handler, 0 before any
    \* ---- clock and React root ----
    now,                \* Date.now(), in ticks of the detector's 100 ms interval
    batching,           \* the React root batches state updates made outside React event handlers
    \* ---- speech hook outputs read by the detector (useSpeechRecognition) ----
    isListening,        \* React state
    lastSpokenAt,       \* React state, 0 for null
    \* ---- pause and cooldown detector (useSilenceDetection.ts) ----
    lastSpokenAtRef,    \* lastSpokenAtRef.current, 0 for null
    pauseTriggered,     \* pauseTriggeredRef.current
    lastSuggestionTime, \* lastSuggestionTimeRef.current, 0 for null
    silenceDuration,    \* React state
    isPaused,           \* React state
    isInCooldown,       \* React state
    \* ---- orchestrator (VoiceAssistant.tsx) ----
    appState,           \* React state
    isPlaying,          \* useStreamingAudio's isPlaying, read as isAISpeaking
    \* ---- detector history (observation only) ----
    justFired,          \* the step that led here invoked onPauseDetected
    firedInEpisode,     \* onPauseDetected invocations since lastSpokenAtRef last changed (at most 2 counted)
    playbackEndedAt,    \* time the latest response finished playing by itself, 0 if none or stopped by hand
    \* ---- snapshot minimisation (useWebSocket.ts) ----
    turns,              \* snapshot.lastTurns handed to sendPauseDetected
    lastTurns,          \* minimalSnapshot.lastTurns of the latest frame sent
    \* ---- playback scheduler (src/hooks/useStreamingAudio.ts) ----
    chunkQueue,         \* chunkQueueRef.current: chunks not yet taken by processQueue
    decoding,           \* chunks inside decodeAudioData, one per processQueue loop that is running
    sourceNodes,        \* sourceNodesRef.current: scheduled sources with their time windows
    detached,           \* sources stopped by stop() whose ended event has not fired yet
    nextPlayTime,       \* nextPlayTimeRef.current
    playbackStarted,    \* playbackStartedRef.current
    isStreaming,        \* isStreamingRef.current
    isProcessing,       \* isProcessingRef.current
    currentTime,        \* AudioContext.currentTime, in ticks
    \* ---- scheduler history (observation only) ----
    chunksQueued,       \* chunks handed to queueChunk so far
    timeline,           \* windows scheduled since the last stop(), in scheduling order
    stoppedAfter,       \* chunks queued before the latest stop(), -1 if stop() never ran
    stoppedPlayback,    \* the latest stop() found playback started
    responseOf,         \* responseOf[i]: the response that the i-th queued chunk belongs to
    everScheduled,      \* ids of the chunks that were handed to source.start()
    \* ---- turn buffer (useSpeechRecognition) ----
    recentTurns,        \* React state: the turns [text, timestamp] of the rolling window
    evicted,            \* history: the latest insert or sweep dropped a turn
    \* ---- transcription controller (useSpeechRecognition) ----
    sessions,           \* engine sessions not yet discarded: id -> [state, fault, onend]
    recognitionRef,     \* recognitionRef.current: a session id, or 0 for null
    restartTimer,       \* session whose onend set the pending restart timeout, 0 if none is pending
    refreshTimers,      \* pending delayed starts of refreshRecognition: the isListening each closure holds
    shouldRestart,      \* shouldRestartRef.current
    retryCount,         \* retryCountRef.current
    lastErrorType,      \* lastErrorTypeRef.current
    backoffMs,          \* backoffMsRef.current
    speechError,        \* React state error of the hook
    lastResultTime,     \* React state lastResultTime
    \* ---- controller history (observation only) ----
    netFaults,          \* network faults in a row (retrying controller): no result, other fault or explicit call in between
    userStopped,        \* stopListening() was called and startListening() not since by the user
    permissionDenied,   \* a 'not-allowed' fault was reported and startListening() not since by the user
    detectedLanguage,   \* useState('en-US'), line 38
    \* ---- inbound frames (useWebSocket.ts, observation only) ----
    lastFrame,          \* kind of the latest frame ws.onmessage received, "none" before any
    delivered,          \* callbacks that frame's handler invoked
    \* ---- outgoing snapshot (useWebSocket.ts, observation only) ----
    outgoing,           \* conversation_snapshot of the latest pause_detected frame built from a caller's snapshot, << >> before any
    spokenAtMs,         \* the speech hook's lastSpokenAt (milliseconds, 0 for null) that the caller of that frame read
    \* ---- output gain (src/hooks/useStreamingAudio.ts) ----
    volume,             \* the hook's volume option, in tenths
    unplugged           \* ids of the sources connected to a gain node that was disconnected from the destination

transportVars == <<sockets, wsRef, refTimer, orphanTimers,
                   reconnectAttempts, isConnected, isConnecting, error, wire,
                   userDisconnected, userCalls, closesSinceOpen, lastCloseCode>>

clockVars == <<now, batching>>

pauseVars == <<isListening, lastSpokenAt, lastSpokenAtRef, pauseTriggered,
               lastSuggestionTime, silenceDuration, isPaused, isInCooldown,
               appState, isPlaying, justFired, firedInEpisode, playbackEndedAt>>

snapshotVars == <<turns, lastTurns>>

audioVars == <<chunkQueue, decoding, sourceNodes, detached, nextPlayTime,
               playbackStarted, isStreaming, isProcessing, currentTime,
               chunksQueued, timeline, stoppedAfter, stoppedPlayback,
               responseOf, everScheduled>>

\* the audio output and the speech input, which the transport, the detector
\* and the snapshot steps never touch
bufferVars == <<recentTurns, evicted>>

recognitionVars == <<sessions, recognitionRef, restartTimer, refreshTimers,
                     shouldRestart, retryCount, lastErrorType, backoffMs,
                     speechError, lastResultTime, netFaults, userStopped,
                     permissionDenied, detectedLanguage>>

inboundVars == <<lastFrame, delivered>>

outboundVars == <<outgoing, spokenAtMs>>

gainVars == <<volume, unplugged>>

deviceVars == <<audioVars, bufferVars, recognitionVars, inboundVars,
                outboundVars, gainVars>>

vars == <<transportVars, clockVars, pauseVars, snapshotVars, deviceVars>>

---------------------------------------------------------------------------
(* Bounds of the model *)
MaxLive == 2        \* sockets not yet closed at the same time
MaxTimers == 2      \* reconnect timers pending at the same time
MaxWire == 2        \* frames counted in one behaviour
MaxTime == 10       \* clock ticks in one behaviour
silenceThreshold == 3   \* the detector's silenceThreshold prop, in ticks
cooldownPeriod == 4     \* the detector's cooldownPeriod prop, in ticks
MaxInputTurns == 5  \* turns in one input snapshot

(* Program constants *)
maxReconnectAttempts == 5
ReconnectBaseMs == 1000
ReconnectCapMs == 30000
NormalClosure == 1000
GoingAway == 1001
AbnormalClosure == 1006

NoError == "null"
ConnectionError == "WebSocket connection error"
CreateError == "Failed to create WebSocket connection"

Min(a, b) == IF a <= b THEN a ELSE b

---------------------------------------------------------------------------
(* Snapshot minimisation: cleanTranscript and getRecentTurns *)

\* A text is a sequence of characters. The model's alphabet has one whitespace
\* character and a few letter groups that stand for runs of letters.
Space == " "

maxTurns == 4

\* the FILLER_WORDS set; every entry is the text of its string literal
FILLER_WORDS ==
    { <<"uh">>, <<"um">>, <<"hmm">>, <<"haan">>, <<"ah">>, <<"eh">>, <<"er">>,
      <<"like">>, <<"you", Space, "know">>, <<"basically">>, <<"actually">>,
      <<"literally">>, <<"so">>, <<"well">>, <<"right">> }

\* the raw turn texts the inputs are drawn from
SampleTexts ==
    { <<"Hi">>,
      <<"UM">>,
      <<"um", Space, Space, "hi", Space>>,
      <<"you", Space, "know">>,
      <<Space>>,
      <<"So", Space, "you", Space, "know", Space, "hi">> }

\* String.prototype.toLowerCase, character by character
LowerChar(c) ==
    CASE c = "Hi" -> "hi"
      [] c = "UM" -> "um"
      [] c = "So" -> "so"
      [] OTHER -> c

toLowerCase(text) == [i \in DOMAIN text |-> LowerChar(text[i])]

\* text.split(/\s+/): the pieces between maximal runs of whitespace; a leading or
\* trailing run leaves an empty piece
RECURSIVE split(_)
split(text) ==
    IF \A i \in DOMAIN text : text[i] # Space
    THEN << text >>
    ELSE LET i == CHOOSE k \in DOMAIN text :
                      text[k] = Space /\ \A m \in 1..(k - 1) : text[m] # Space
             j == CHOOSE k \in i..Len(text) :
                      /\ \A m \in i..k : text[m] = Space
                      /\ (k = Len(text) \/ text[k + 1] # Space)
         IN  << SubSeq(text, 1, i - 1) >> \o split(SubSeq(text, j + 1, Len(text)))

\* words.filter(word => !FILLER_WORDS.has(word))
IsKept(word) == word \notin FILLER_WORDS

filterWords(words) == SelectSeq(words, IsKept)

\* cleanedWords.join(' ')
RECURSIVE join(_)
join(words) ==
    IF words = << >> THEN << >>
    ELSE IF Len(words) = 1 THEN words[1]
    ELSE words[1] \o << Space >> \o join(Tail(words))

\* String.prototype.trim
RECURSIVE trim(_)
trim(text) ==
    IF text = << >> THEN text
    ELSE IF Head(text) = Space THEN trim(Tail(text))
    ELSE IF text[Len(text)] = Space THEN trim(SubSeq(text, 1, Len(text) - 1))
    ELSE text

\* the text cleanTranscript gives one turn
cleanText(text) == trim(join(filterWords(split(toLowerCase(text)))))

\* cleanTranscript(turns)
cleanTranscript(ts) ==
    SelectSeq([i \in DOMAIN ts |-> [ts[i] EXCEPT !.text = cleanText(ts[i].text)]],
              LAMBDA turn : Len(turn.text) > 0)

\* Array.prototype.slice(-n) for n > 0
sliceLast(seq, n) ==
    IF Len(seq) <= n THEN seq ELSE SubSeq(seq, Len(seq) - n + 1, Len(seq))

\* getRecentTurns(turns, maxTurns)
getRecentTurns(ts, n) == sliceLast(cleanTranscript(ts), n)

---------------------------------------------------------------------------
(* Session transport *)

\* readyState of a socket; a socket that left the map is CLOSED
ReadyState(s) == IF s \in DOMAIN sockets THEN sockets[s] ELSE "closed"

\* wsRef.current?.readyState === WebSocket.OPEN
RefIsOpen == wsRef # 0 /\ ReadyState(wsRef) = "open"

\* reconnect timers that have been set and have neither fired nor been cleared
TimerCount == (IF refTimer # 0 THEN 1 ELSE 0) + orphanTimers

\* Math.min(1000 * Math.pow(2, attempts), 30000); the first definition is the
\* linear law 1000 * (attempts + 1), kept to compare the properties against
ReconnectDelayLinear(attempts) == Min(ReconnectBaseMs * (attempts + 1), ReconnectCapMs)
ReconnectDelay(attempts) == Min(ReconnectBaseMs * (2 ^ attempts), ReconnectCapMs)

\* event.code !== 1000 && reconnectAttemptsRef.current < maxReconnectAttempts; the
\* first definition drops the test of the close code
ShouldReconnectAnyCode(code, attempts) == attempts < maxReconnectAttempts
ShouldReconnect(code, attempts) ==
    code # NormalClosure /\ attempts < maxReconnectAttempts

\* the attempt counter after ws.onopen
AttemptsAfterOpen(attempts) == 0

\* sendPauseDetected's guard; the first definition only asks for a socket in wsRef
CanSendAlways == wsRef # 0
CanSend == RefIsOpen

\* sendPauseDetected(snapshot): the frame is sent only if the socket is open
SendBody ==
    IF CanSend
    THEN wire' = Min(wire + 1, MaxWire)
    ELSE UNCHANGED wire

\* the detector and the orchestrator before the user has done anything
InitDetectorAtRest ==
    /\ now = 1
    /\ batching = TRUE
    /\ isListening = FALSE
    /\ lastSpokenAt = 0
    /\ lastSpokenAtRef = 0
    /\ pauseTriggered = FALSE
    /\ lastSuggestionTime = 0
    /\ silenceDuration = 0
    /\ isPaused = FALSE
    /\ isInCooldown = FALSE
    /\ appState = "idle"
    /\ isPlaying = FALSE
    /\ justFired = FALSE
    /\ firedInEpisode = 0
    /\ playbackEndedAt = 0

\* no snapshot has been built or sent
InitSnapshotEmpty ==
    /\ turns = << >>
    /\ lastTurns = << >>

\* useStreamingAudio's refs as constructed (lines 54-60), the engine clock at 0
InitAudioAtRest ==
    /\ chunkQueue = << >>
    /\ decoding = {}
    /\ sourceNodes = {}
    /\ detached = 0
    /\ nextPlayTime = 0
    /\ playbackStarted = FALSE
    /\ isStreaming = FALSE
    /\ isProcessing = FALSE
    /\ currentTime = 0
    /\ chunksQueued = 0
    /\ timeline = << >>
    /\ stoppedAfter = -1
    /\ stoppedPlayback = FALSE
    /\ responseOf = << >>
    /\ everScheduled = {}

\* useState([]) for recentTurns
InitBufferEmpty ==
    /\ recentTurns = << >>
    /\ evicted = FALSE

\* the controller's state and refs as constructed (useSpeechRecognition.ts
\* 27-42, part_001 34-45); lastResultTime starts at Date.now()
InitRecognitionAtRest ==
    /\ sessions = << >>
    /\ recognitionRef = 0
    /\ restartTimer = 0
    /\ refreshTimers = << >>
    /\ shouldRestart = FALSE
    /\ retryCount = 0
    /\ lastErrorType = "null"
    /\ backoffMs = 1000
    /\ speechError = "null"
    /\ lastResultTime = 1
    /\ netFaults = 0
    /\ userStopped = FALSE
    /\ permissionDenied = FALSE
    /\ detectedLanguage = "en-US"

\* no frame has arrived
InitInboundNone ==
    /\ lastFrame = "none"
    /\ delivered = {}

\* no pause_detected frame has been built
InitOutboundNone ==
    /\ outgoing = << >>
    /\ spokenAtMs = 0

\* the default of the volume option (0.7); the gain node of the mount carries
\* every source
InitGain ==
    /\ volume = 7
    /\ unplugged = {}

InitDevicesAtRest ==
    /\ InitAudioAtRest
    /\ InitBufferEmpty
    /\ InitRecognitionAtRest
    /\ InitInboundNone
    /\ InitOutboundNone
    /\ InitGain

InitTransport ==
    /\ sockets = << >>
    /\ wsRef = 0
    /\ refTimer = 0
    /\ orphanTimers = 0
    /\ reconnectAttempts = 0
    /\ isConnected = FALSE
    /\ isConnecting = FALSE
    /\ error = NoError
    /\ wire = 0
    /\ userDisconnected = FALSE
    /\ userCalls = 0
    /\ closesSinceOpen = 0
    /\ lastCloseCode = 0

\* the transport's steps leave the clock, the detector and the orchestrator alone
DetectorIdle == UNCHANGED <<clockVars, pauseVars, snapshotVars, deviceVars>>

\* the name given to the next WebSocket object: names of closed sockets are reused
FreshSocket == CHOOSE s \in 1..MaxLive : s \notin DOMAIN sockets

\* the body of connect()
ConnectBody ==
    IF RefIsOpen
    THEN UNCHANGED <<sockets, wsRef, isConnecting, error>>
    ELSE \/ /\ Cardinality(DOMAIN sockets) < MaxLive
            /\ sockets' = [s \in DOMAIN sockets \cup {FreshSocket} |->
                              IF s = FreshSocket THEN "connecting" ELSE sockets[s]]
            /\ wsRef' = FreshSocket
            /\ isConnecting' = TRUE
            /\ error' = NoError
         \/ \* new WebSocket(url) throws
            /\ isConnecting' = FALSE
            /\ error' = CreateError
            /\ UNCHANGED <<sockets, wsRef>>

\* connect() called by the hook's user (the mount effect's call is the first one)
Connect ==
    /\ ConnectBody
    /\ userDisconnected' = FALSE
    /\ userCalls' = Min(userCalls + 1, 2)
    /\ UNCHANGED <<refTimer, orphanTimers, reconnectAttempts, isConnected, wire,
                   closesSinceOpen, lastCloseCode>>
    /\ DetectorIdle

\* the setTimeout callback of ws.onclose: reconnectAttemptsRef.current++; connect()
ReconnectTimerFires ==
    /\ \/ /\ refTimer # 0
          /\ refTimer' = 0
          /\ UNCHANGED orphanTimers
       \/ /\ orphanTimers > 0
          /\ orphanTimers' = orphanTimers - 1
          /\ UNCHANGED refTimer
    /\ reconnectAttempts' = reconnectAttempts + 1
    /\ ConnectBody
    /\ UNCHANGED <<isConnected, wire, userDisconnected, userCalls,
                   closesSinceOpen, lastCloseCode>>
    /\ DetectorIdle

\* ws.onopen
SocketOpens(s) ==
    /\ ReadyState(s) = "connecting"
    /\ sockets' = [sockets EXCEPT ![s] = "open"]
    /\ isConnected' = TRUE
    /\ isConnecting' = FALSE
    /\ error' = NoError
    /\ reconnectAttempts' = AttemptsAfterOpen(reconnectAttempts)
    /\ closesSinceOpen' = 0
    /\ UNCHANGED <<wsRef, refTimer, orphanTimers, wire, userDisconnected,
                   userCalls, lastCloseCode>>
    /\ DetectorIdle

\* ws.onclose for socket s with close code `code`
OnClose(s, code) ==
    /\ sockets' = [t \in DOMAIN sockets \ {s} |-> sockets[t]]
    /\ isConnected' = FALSE
    /\ isConnecting' = FALSE
    /\ IF ShouldReconnect(code, reconnectAttempts)
       THEN /\ TimerCount < MaxTimers
            /\ refTimer' = ReconnectDelay(reconnectAttempts)
            /\ orphanTimers' = IF refTimer # 0 THEN orphanTimers + 1 ELSE orphanTimers
       ELSE UNCHANGED <<refTimer, orphanTimers>>
    /\ closesSinceOpen' = IF code # NormalClosure
                          THEN Min(closesSinceOpen + 1, maxReconnectAttempts + 1)
                          ELSE closesSinceOpen
    /\ lastCloseCode' = code
    /\ UNCHANGED <<wsRef, reconnectAttempts, wire, userDisconnected, userCalls>>
    /\ DetectorIdle

\* the connection fails before it was established (refused, handshake failed, or
\* close() was called while CONNECTING): the browser fires error, then close 1006
SocketFails(s) ==
    /\ ReadyState(s) \in {"connecting", "aborting"}
    /\ error' = ConnectionError
    /\ OnClose(s, AbnormalClosure)

\* the peer closes an open connection with a close frame
PeerCloses(s, code) ==
    /\ ReadyState(s) = "open"
    /\ UNCHANGED error
    /\ OnClose(s, code)

\* an established connection is lost without a close frame
ConnectionLost(s, withError) ==
    /\ ReadyState(s) \in {"open", "closing"}
    /\ error' = IF withError THEN ConnectionError ELSE error
    /\ OnClose(s, AbnormalClosure)

\* the closing handshake started by ws.close(1000, ...) completes
CloseHandshakeCompletes(s) ==
    /\ ReadyState(s) = "closing"
    /\ UNCHANGED error
    /\ OnClose(s, NormalClosure)

\* disconnect()
Disconnect ==
    /\ refTimer' = 0
    /\ sockets' = [s \in DOMAIN sockets |->
                      IF s # wsRef THEN sockets[s]
                      ELSE IF sockets[s] = "connecting" THEN "aborting"
                      ELSE IF sockets[s] = "open" THEN "closing"
                      ELSE sockets[s]]
    /\ wsRef' = 0
    /\ isConnected' = FALSE
    /\ userDisconnected' = TRUE
    /\ userCalls' = Min(userCalls + 1, 2)
    /\ UNCHANGED <<orphanTimers, reconnectAttempts, isConnecting, error,
                   wire, closesSinceOpen, lastCloseCode>>
    /\ DetectorIdle

\* sendPauseDetected(snapshot) with snapshot.lastTurns = turns
SendPauseDetected ==
    /\ SendBody
    /\ lastTurns' = IF CanSend THEN getRecentTurns(turns, maxTurns) ELSE lastTurns
    /\ UNCHANGED <<sockets, wsRef, refTimer, orphanTimers,
                   reconnectAttempts, isConnected, isConnecting, error,
                   userDisconnected, userCalls, closesSinceOpen, lastCloseCode>>
    /\ UNCHANGED <<turns, clockVars, pauseVars, deviceVars>>

NextTransport ==
    \/ Connect
    \/ Disconnect
    \/ ReconnectTimerFires
    \/ SendPauseDetected
    \/ \E s \in 1..MaxLive : SocketOpens(s)
    \/ \E s \in 1..MaxLive : SocketFails(s)
    \/ \E s \in 1..MaxLive, code \in {NormalClosure, GoingAway} : PeerCloses(s, code)
    \/ \E s \in 1..MaxLive, withError \in BOOLEAN : ConnectionLost(s, withError)
    \/ \E s \in 1..MaxLive : CloseHandshakeCompletes(s)

InitSession ==
    InitTransport /\ InitDetectorAtRest /\ InitSnapshotEmpty /\ InitDevicesAtRest

SpecTransport == InitSession /\ [][NextTransport]_vars

---------------------------------------------------------------------------
(* Session transport: properties *)

\* a step in which some socket's onclose handler ran
CloseStep == Cardinality(DOMAIN sockets') < Cardinality(DOMAIN sockets)

\* ... with a close code other than 1000
InvoluntaryCloseStep == CloseStep /\ lastCloseCode' # NormalClosure

\* a step in which a connect() that was not started by a reconnect timer made a socket
ManualConnectStep ==
    Cardinality(DOMAIN sockets') > Cardinality(DOMAIN sockets) /\ TimerCount' = TimerCount

\* the backoff law min(1000 * 2^n, 30000)
BackoffOf(n) == IF 1000 * (2 ^ n) < 30000 THEN 1000 * (2 ^ n) ELSE 30000

C5_TerminalErrorSurfaced ==
    [][(InvoluntaryCloseStep /\ reconnectAttempts >= maxReconnectAttempts)
        => (TimerCount' = TimerCount /\ error' # NoError)]_vars

\* C5, first half only: at the retry limit no reconnect is scheduled
C5_NoRetryAtLimit ==
    [][(InvoluntaryCloseStep /\ reconnectAttempts >= maxReconnectAttempts)
        => (TimerCount' = TimerCount /\ refTimer' = refTimer)]_vars

\* C6: a manual connect() made after the retry limit was reached resets the
\* reconnect attempt counter to 0.
C6_ManualConnectResetsAttempts ==
    [][(ManualConnectStep /\ reconnectAttempts >= maxReconnectAttempts)
        => reconnectAttempts' = 0]_vars

\* C7 as stated: a close with code 1000 never schedules a reconnect, a close with
\* any other code schedules one.
C7_AnyOtherCodeReconnects ==
    [][CloseStep =>
        IF lastCloseCode' = NormalClosure
        THEN TimerCount' = TimerCount /\ refTimer' = refTimer
        ELSE TimerCount' = TimerCount + 1]_vars

\* C7 amended: a close with code 1000 never schedules a reconnect; a close with any
\* other code schedules a backoff reconnection exactly when fewer than 5 reconnect
\* attempts have been made since the last successful open.
C7_OtherCodeReconnectsBelowLimit ==
    [][CloseStep =>
        IF lastCloseCode' # NormalClosure /\ reconnectAttempts < maxReconnectAttempts
        THEN TimerCount' = TimerCount + 1 /\ refTimer' = BackoffOf(reconnectAttempts)
        ELSE TimerCount' = TimerCount /\ refTimer' = refTimer]_vars

\* the last socket closed with code 1006 after the fifth reconnect attempt, and no
\* reconnect timer was set
C7_Witness ==
    /\ lastCloseCode = AbnormalClosure
    /\ reconnectAttempts = maxReconnectAttempts
    /\ DOMAIN sockets = {}
    /\ TimerCount = 0

\* C8: after disconnect() and until the next connect(), no reconnect timer is
\* pending and no socket is made.
C8_NoReconnectAfterDisconnect ==
    [][userDisconnected' =>
        (TimerCount' = 0
            /\ (userDisconnected =>
                   Cardinality(DOMAIN sockets') <= Cardinality(DOMAIN sockets)))]_vars

\* C9: a frame is sent only by a sendPauseDetected call made while the socket in
\* wsRef is OPEN; no other step (a later open, a timer) transmits anything.
C9_SendOnlyWhileOpen ==
    [][wire' # wire => (RefIsOpen /\ wire' = wire + 1)]_vars

\* a frame was sent, and the transport has since left the open state
C9_Witness == wire > 0 /\ ~RefIsOpen

\* the sockets created by connect() that are CONNECTING or OPEN
LiveSockets == {s \in DOMAIN sockets : sockets[s] \in {"connecting", "open"}}

\* C38: at most one socket of the transport is connecting or open, and at most
\* one reconnect timer is pending.
C38_OneSocketOneTimer ==
    /\ Cardinality(LiveSockets) <= 1
    /\ TimerCount <= 1

\* the two halves of C38, to tell which of them fails
C38_OneSocket == Cardinality(LiveSockets) <= 1
C38_OneTimer == TimerCount <= 1

---------------------------------------------------------------------------
(* Pause and cooldown detector, driven by the orchestrator *)

\* cooldownPeriod > 0 && lastSuggestionTimeRef.current &&
\* now - lastSuggestionTimeRef.current < cooldownPeriod
InCooldownAt(t) ==
    cooldownPeriod > 0 /\ lastSuggestionTime # 0 /\ t - lastSuggestionTime < cooldownPeriod

\* the interval callback's decision to fire, for the silence measured at time t;
\* the first definition leaves the cooldown test out
PauseDueIgnoringCooldown(silence, triggered, t) ==
    silence >= silenceThreshold /\ ~triggered
PauseDue(silence, triggered, t) ==
    silence >= silenceThreshold /\ ~triggered /\ ~InCooldownAt(t)

\* the value updateLastSuggestionTime() leaves in lastSuggestionTimeRef at time t
updateLastSuggestionTime(t) == IF cooldownPeriod <= 0 THEN lastSuggestionTime ELSE t

\* the orchestrator's effect on [isListening, isAISpeaking], run after a render in
\* which one of them changed
StateAfterRender(listening, playing, state) ==
    IF ~playing THEN (IF listening THEN "listening" ELSE "idle") ELSE state

\* a session is up or down; the detector's component sees the transport through
\* isConnected and through the socket wsRef points to
TransportOpens ==
    /\ ~isConnected
    /\ isConnected' = TRUE
    /\ wsRef' = 1
    /\ sockets' = [s \in {1} |-> "open"]
    /\ justFired' = FALSE
    /\ UNCHANGED <<refTimer, orphanTimers, reconnectAttempts, isConnecting,
                   error, wire, userDisconnected, userCalls, closesSinceOpen,
                   lastCloseCode, clockVars, snapshotVars, deviceVars>>
    /\ UNCHANGED <<isListening, lastSpokenAt, lastSpokenAtRef, pauseTriggered,
                   lastSuggestionTime, silenceDuration, isPaused, isInCooldown,
                   appState, isPlaying, firedInEpisode, playbackEndedAt>>

TransportCloses ==
    /\ isConnected
    /\ isConnected' = FALSE
    /\ sockets' = << >>
    /\ justFired' = FALSE
    /\ UNCHANGED <<wsRef, refTimer, orphanTimers, reconnectAttempts,
                   isConnecting, error, wire, userDisconnected, userCalls,
                   closesSinceOpen, lastCloseCode, clockVars, snapshotVars, deviceVars>>
    /\ UNCHANGED <<isListening, lastSpokenAt, lastSpokenAtRef, pauseTriggered,
                   lastSuggestionTime, silenceDuration, isPaused, isInCooldown,
                   appState, isPlaying, firedInEpisode, playbackEndedAt>>

\* what the steps of the detector's component never touch
TransportIdle ==
    UNCHANGED <<sockets, wsRef, refTimer, orphanTimers, reconnectAttempts,
                isConnected, isConnecting, error, userDisconnected, userCalls,
                closesSinceOpen, lastCloseCode, batching, snapshotVars,
                deviceVars>>

\* an orchestrator that hands every trigger to the transport
handlePauseDetectedUnguarded ==
    /\ appState' = "thinking"
    /\ SendBody

\* handlePauseDetected, the detector's onPauseDetected
handlePauseDetected ==
    IF isConnected /\ ~isPlaying
    THEN /\ appState' = "thinking"
         /\ SendBody
    ELSE UNCHANGED <<appState, wire>>

\* one period of the 100 ms interval while listening: the clock advances and the
\* interval callback runs
Tick ==
    /\ isListening
    /\ now < MaxTime
    /\ now' = now + 1
    /\ isInCooldown' = IF cooldownPeriod > 0 /\ lastSuggestionTime # 0
                       THEN now' - lastSuggestionTime < cooldownPeriod
                       ELSE isInCooldown
    /\ IF lastSpokenAtRef # 0
       THEN /\ silenceDuration' = now' - lastSpokenAtRef
            /\ IF PauseDue(now' - lastSpokenAtRef, pauseTriggered, now')
               THEN /\ pauseTriggered' = TRUE
                    /\ isPaused' = TRUE
                    /\ justFired' = TRUE
                    /\ firedInEpisode' = Min(firedInEpisode + 1, 2)
                    /\ handlePauseDetected
               ELSE /\ justFired' = FALSE
                    /\ UNCHANGED <<pauseTriggered, isPaused, firedInEpisode,
                                   appState, wire>>
       ELSE /\ justFired' = FALSE
            /\ UNCHANGED <<silenceDuration, pauseTriggered, isPaused,
                           firedInEpisode, appState, wire>>
    /\ TransportIdle
    /\ UNCHANGED <<isListening, lastSpokenAt, lastSpokenAtRef, lastSuggestionTime,
                   isPlaying, playbackEndedAt>>

\* the same period while not listening: no interval is installed
ClockAdvances ==
    /\ ~isListening
    /\ now < MaxTime
    /\ now' = now + 1
    /\ justFired' = FALSE
    /\ TransportIdle
    /\ UNCHANGED <<wire, isListening, lastSpokenAt, lastSpokenAtRef, pauseTriggered,
                   lastSuggestionTime, silenceDuration, isPaused, isInCooldown,
                   appState, isPlaying, firedInEpisode, playbackEndedAt>>


\* recognition.onresult: setLastSpokenAt(Date.now()), then the detector's effect
\* on [lastSpokenAt]
Speak ==
    /\ isListening
    /\ lastSpokenAt' = now
    /\ IF now # lastSpokenAt /\ now # lastSpokenAtRef
       THEN /\ lastSpokenAtRef' = now
            /\ isPaused' = FALSE
            /\ pauseTriggered' = FALSE
            /\ firedInEpisode' = 0
       ELSE UNCHANGED <<lastSpokenAtRef, isPaused, pauseTriggered, firedInEpisode>>
    /\ justFired' = FALSE
    /\ TransportIdle
    /\ UNCHANGED <<now, wire, isListening, lastSuggestionTime, silenceDuration,
                   isInCooldown, appState, isPlaying, playbackEndedAt>>

\* toggleListening while not listening: startListening(), then recognition.onstart
StartListening ==
    /\ ~isListening
    /\ isListening' = TRUE
    /\ appState' = StateAfterRender(TRUE, isPlaying, appState)
    /\ justFired' = FALSE
    /\ TransportIdle
    /\ UNCHANGED <<now, wire, lastSpokenAt, lastSpokenAtRef, pauseTriggered,
                   lastSuggestionTime, silenceDuration, isPaused, isInCooldown,
                   isPlaying, firedInEpisode, playbackEndedAt>>

\* the detector's effect on isListening when listening has stopped
ListeningStopped ==
    /\ isListening' = FALSE
    /\ silenceDuration' = 0
    /\ isPaused' = FALSE
    /\ pauseTriggered' = FALSE
    /\ UNCHANGED <<lastSpokenAt, lastSpokenAtRef, firedInEpisode>>

\* toggleListening while listening: stopListening(); stopAudio(). The handler has
\* awaited, so its updates are batched only if the root batches them; without
\* batching the render after setIsPlaying(false) still has appState 'speaking'.
StopListening ==
    /\ isListening
    /\ ListeningStopped
    /\ isPlaying' = FALSE
    /\ appState' = "idle"
    /\ IF ~batching /\ isPlaying /\ appState = "speaking"
       THEN /\ lastSuggestionTime' = updateLastSuggestionTime(now)
            /\ isInCooldown' = (cooldownPeriod > 0 \/ isInCooldown)
       ELSE UNCHANGED <<lastSuggestionTime, isInCooldown>>
    /\ playbackEndedAt' = 0
    /\ justFired' = FALSE
    /\ TransportIdle
    /\ UNCHANGED <<now, wire>>

\* recognition ends for good (onend without restart, or a fatal onerror)
RecognitionEnds ==
    /\ isListening
    /\ ListeningStopped
    /\ appState' = StateAfterRender(FALSE, isPlaying, appState)
    /\ justFired' = FALSE
    /\ TransportIdle
    /\ UNCHANGED <<now, wire, lastSuggestionTime, isInCooldown, isPlaying,
                   playbackEndedAt>>

\* the first chunk of a response is scheduled: setIsPlaying(true); onPlaybackStart()
PlaybackStarts ==
    /\ isConnected
    /\ ~isPlaying
    /\ isPlaying' = TRUE
    /\ appState' = "speaking"
    /\ playbackEndedAt' = 0
    /\ justFired' = FALSE
    /\ TransportIdle
    /\ UNCHANGED <<now, wire, isListening, lastSpokenAt, lastSpokenAtRef,
                   pauseTriggered, lastSuggestionTime, silenceDuration, isPaused,
                   isInCooldown, firedInEpisode>>

\* source.onended of the last chunk: setIsPlaying(false); onPlaybackEnd(). With
\* batching both updates are rendered at once and the cooldown effect never sees
\* !isAISpeaking with appState 'speaking'; without it the render in between does.
PlaybackEnds ==
    /\ isPlaying
    /\ isPlaying' = FALSE
    /\ appState' = StateAfterRender(isListening, FALSE, appState)
    /\ IF ~batching /\ appState = "speaking"
       THEN /\ lastSuggestionTime' = updateLastSuggestionTime(now)
            /\ isInCooldown' = (cooldownPeriod > 0 \/ isInCooldown)
       ELSE UNCHANGED <<lastSuggestionTime, isInCooldown>>
    /\ playbackEndedAt' = now
    /\ justFired' = FALSE
    /\ TransportIdle
    /\ UNCHANGED <<now, wire, isListening, lastSpokenAt, lastSpokenAtRef,
                   pauseTriggered, silenceDuration, isPaused, firedInEpisode>>

\* handleStopAudio: stopAudio(); resetPause(), in a click handler (always batched)
handleStopAudio ==
    /\ isPlaying
    /\ isPlaying' = FALSE
    /\ appState' = StateAfterRender(isListening, FALSE, appState)
    /\ isPaused' = FALSE
    /\ pauseTriggered' = FALSE
    /\ lastSpokenAtRef' = now
    /\ silenceDuration' = 0
    /\ firedInEpisode' = IF lastSpokenAtRef # now THEN 0 ELSE firedInEpisode
    /\ playbackEndedAt' = 0
    /\ justFired' = FALSE
    /\ TransportIdle
    /\ UNCHANGED <<now, wire, isListening, lastSpokenAt, lastSuggestionTime,
                   isInCooldown>>

InitPause ==
    /\ InitTransport
    /\ InitSnapshotEmpty
    /\ InitDevicesAtRest
    /\ now = 1
    /\ batching \in BOOLEAN
    /\ isListening = FALSE
    /\ lastSpokenAt = 0
    /\ lastSpokenAtRef = 0
    /\ pauseTriggered = FALSE
    /\ lastSuggestionTime = 0
    /\ silenceDuration = 0
    /\ isPaused = FALSE
    /\ isInCooldown = FALSE
    /\ appState = "idle"
    /\ isPlaying = FALSE
    /\ justFired = FALSE
    /\ firedInEpisode = 0
    /\ playbackEndedAt = 0

NextPause ==
    \/ Tick
    \/ ClockAdvances
    \/ Speak
    \/ StartListening
    \/ StopListening
    \/ RecognitionEnds
    \/ PlaybackStarts
    \/ PlaybackEnds
    \/ handleStopAudio
    \/ TransportOpens
    \/ TransportCloses

SpecPause == InitPause /\ [][NextPause]_vars

---------------------------------------------------------------------------
(* Pause and cooldown detector: properties *)

\* the cooldown window opened by the latest updateLastSuggestionTime() covers time t
CooldownActiveAt(t) == lastSuggestionTime # 0 /\ t < lastSuggestionTime + cooldownPeriod

\* C1: within one silence episode (the interval between two consecutive changes
\* of the detector's last-speech time) onPauseDetected is invoked at most once.
C1_AtMostOncePerEpisode == firedInEpisode <= 1

\* C2: onPauseDetected is never invoked by a tick whose time lies before the end
\* of the cooldown window (last updateLastSuggestionTime() + cooldownPeriod).
C2_NoPauseDuringCooldown == justFired => ~CooldownActiveAt(now)

\* a tick has just measured a silence of at least the threshold, no pause event
\* has been raised for it, and the cooldown window is still open
C2_Witness ==
    /\ isListening
    /\ lastSpokenAtRef # 0
    /\ silenceDuration = now - lastSpokenAtRef
    /\ silenceDuration >= silenceThreshold
    /\ ~pauseTriggered
    /\ CooldownActiveAt(now)

\* C3: after a response has finished playing at time e, the cooldown is active
\* until e + cooldownPeriod and no pause event is raised before then.
C3_CooldownFromPlaybackEnd ==
    (playbackEndedAt # 0 /\ now < playbackEndedAt + cooldownPeriod)
        => (CooldownActiveAt(now) /\ ~justFired)

\* VoiceAssistant.tsx line 194, in units of 1/silenceThreshold: the value
\* shown is this number divided by silenceThreshold. ProgressIgnoringCooldown
\* is the bar without the cooldown test.
ProgressIgnoringCooldown == Min(silenceDuration, silenceThreshold)

silenceProgress ==
    IF isInCooldown THEN 0 ELSE Min(silenceDuration, silenceThreshold)

C31_ResetPauseClearsCooldown ==
    [][ handleStopAudio =>
            /\ ~pauseTriggered' /\ ~isPaused'
            /\ lastSpokenAtRef' = now /\ silenceDuration' = 0
            /\ ~isInCooldown' /\ ~InCooldownAt(now) ]_vars

\* the part of C31 that holds: the triggered state is cleared and silence is
\* counted from the reset
C31_ResetPauseRebases ==
    [][ handleStopAudio =>
            /\ ~pauseTriggered' /\ ~isPaused'
            /\ lastSpokenAtRef' = now /\ silenceDuration' = 0 ]_vars

\* a step in which listening stops
ListeningStops == isListening /\ ~isListening'

\* C32: when listening stops the detector's whole state is reset: the silence
\* counter, the triggered flag, the time of the last speech and the cooldown.
\* Violated: the effect of lines 76-83 clears silenceDuration, isPaused and
\* pauseTriggeredRef only; lastSpokenAtRef and the cooldown survive, so after
\* the next start a pause fires on the old silence without new speech.
C32_ListeningStopResetsAll ==
    [][ ListeningStops =>
            /\ silenceDuration' = 0
            /\ ~pauseTriggered' /\ ~isPaused'
            /\ lastSpokenAtRef' = 0
            /\ lastSuggestionTime' = 0 /\ ~isInCooldown' ]_vars

\* the part of C32 that holds: the counter and the triggered state are reset
C32_ListeningStopResetsCounters ==
    [][ ListeningStops =>
            /\ silenceDuration' = 0
            /\ ~pauseTriggered' /\ ~isPaused' ]_vars

\* the interval callback invoked onPauseDetected in this step
TriggerFires == justFired' /\ now' # now

\* the orchestrator's test before it sends (155-164)
MaySend == isConnected /\ ~isPlaying

\* C39: a trigger that fires while the transport is not connected or while the
\* assistant is speaking sends nothing and leaves the episode's flag set; a
\* frame is sent only by a step that finds the flag clear; and the flag is
\* cleared only when lastSpokenAt changes, by resetPause() or when listening is
\* toggled.
C39_ConsumedTriggerIsNotSentLater ==
    [][ /\ (TriggerFires /\ ~MaySend) => (wire' = wire /\ pauseTriggered')
        /\ wire' # wire => (~pauseTriggered /\ pauseTriggered')
        /\ (pauseTriggered /\ ~pauseTriggered') =>
               \/ lastSpokenAt' # lastSpokenAt
               \/ handleStopAudio
               \/ isListening' # isListening ]_vars

\* a trigger was consumed while the transport was down, the transport has
\* opened since, the silence goes on and nothing was sent
C39_Witness ==
    /\ pauseTriggered
    /\ firedInEpisode = 1
    /\ wire = 0
    /\ isConnected /\ ~isPlaying
    /\ isListening
    /\ lastSpokenAtRef # 0
    /\ now - lastSpokenAtRef > silenceThreshold
    /\ ~InCooldownAt(now)

---------------------------------------------------------------------------
(* Snapshot minimisation: inputs *)

\* the caller appends a turn to the snapshot it will hand over
AddTurn(text) ==
    /\ Len(turns) < MaxInputTurns
    /\ turns' = Append(turns, [text |-> text, timestamp |-> Len(turns) + 1])
    /\ UNCHANGED <<lastTurns, transportVars, clockVars, pauseVars, deviceVars>>

InitSnapshot ==
    InitTransport /\ InitDetectorAtRest /\ InitSnapshotEmpty /\ InitDevicesAtRest

NextSnapshot ==
    \/ \E text \in SampleTexts : AddTurn(text)
    \/ SendPauseDetected
    \/ TransportOpens
    \/ TransportCloses

SpecSnapshot == InitSnapshot /\ [][NextSnapshot]_vars

---------------------------------------------------------------------------
(* Snapshot minimisation: properties *)

\* a stoplist entry stands in the text as a word or phrase of its own
ContainsFiller(text) ==
    \E f \in FILLER_WORDS : \E i \in DOMAIN text :
        /\ i + Len(f) - 1 <= Len(text)
        /\ SubSeq(text, i, i + Len(f) - 1) = f
        /\ (i = 1 \/ text[i - 1] = Space)
        /\ (i + Len(f) - 1 = Len(text) \/ text[i + Len(f)] = Space)

\* C10: the lastTurns of an outgoing frame are at most 4 turns, none of them empty
\* and none of them containing an entry of the filler stoplist.
C10_MinimizedTurns ==
    /\ Len(lastTurns) <= maxTurns
    /\ \A i \in DOMAIN lastTurns :
          /\ Len(lastTurns[i].text) > 0
          /\ ~ContainsFiller(lastTurns[i].text)


---------------------------------------------------------------------------
(* Outgoing snapshot: what the orchestrator hands over and what is sent *)

\* Math.floor(x / 1000) divides by this
MsPerSecond == 1000

\* lastSpokenAt of the speech hook at the time of the call: Date.now() of the
\* latest result in milliseconds, 0 for null
SpokenAtSamples == {0, 1000, 1999, 61500}

\* silenceDurationRef.current at the time of the call, in milliseconds
SilenceSamples == {0, 7000}

\* detectedLanguage of the speech hook
Languages == {"en-US", "hi-IN"}

\* the two orchestrators that call sendPauseDetected
Callers == {"VoiceAssistant.tsx", "part_002"}

\* the raw turn texts of this specification's inputs
OutboundTexts == { <<"Hi">>, <<"UM">> }

\* lastSpokenAt ? Math.floor(lastSpokenAt / 1000) : null
Seconds(ms) == IF ms # 0 THEN ms \div MsPerSecond ELSE 0

\* detectedLanguage.startsWith('hi')
startsWithHi(language) == language = "hi-IN"

normalizedLanguage(language) ==
    IF startsWithHi(language) THEN "hindi" ELSE "english"

\* confidenceScore of part_002 (121-124), in thousandths
confidenceScore(silenceMs, n) ==
    LET baseConfidence == IF silenceMs \div 15 < 1000
                          THEN 1000 - (silenceMs \div 15) ELSE 0
        turnBoost == Min((n * 1000) \div 6, 200)
    IN  Min(1000, baseConfidence + turnBoost)

\* the object literal that each orchestrator passes to sendPauseDetected
CallerSnapshot(caller, ms, language, silenceMs) ==
    IF caller = "part_002"
    THEN [ lastTurns |-> turns,
           lastSpokenAt |-> Seconds(ms),
           detectedLanguage |-> normalizedLanguage(language),
           confidenceScore |-> confidenceScore(silenceMs, Len(turns)) ]
    ELSE [ lastTurns |-> turns,
           lastSpokenAt |-> ms,
           detectedLanguage |-> language,
           userContext |-> "userContext",
           dateContext |-> "dateContext",
           boundaryGuidelines |-> "boundaryGuidelines" ]

\* a transport that forwards the caller's object with the turns minimised
wholeSnapshot(snapshot) ==
    [snapshot EXCEPT !.lastTurns = getRecentTurns(@, maxTurns)]

\* the object literal minimalSnapshot of sendPauseDetected
minimalSnapshot(snapshot) ==
    [ lastTurns |-> getRecentTurns(snapshot.lastTurns, maxTurns),
      lastSpokenAt |-> snapshot.lastSpokenAt,
      detectedLanguage |-> snapshot.detectedLanguage ]

\* sendPauseDetected(snapshot) with the snapshot that the caller builds from the
\* hooks' state
SendSnapshot(caller, ms, language, silenceMs) ==
    LET snapshot == CallerSnapshot(caller, ms, language, silenceMs)
    IN  /\ SendBody
        /\ lastTurns' = IF CanSend THEN getRecentTurns(snapshot.lastTurns, maxTurns)
                        ELSE lastTurns
        /\ outgoing' = IF CanSend THEN << minimalSnapshot(snapshot) >>
                       ELSE outgoing
        /\ spokenAtMs' = IF CanSend THEN ms ELSE spokenAtMs
        /\ UNCHANGED <<sockets, wsRef, refTimer, orphanTimers,
                       reconnectAttempts, isConnected, isConnecting, error,
                       userDisconnected, userCalls, closesSinceOpen,
                       lastCloseCode>>
        /\ UNCHANGED <<turns, clockVars, pauseVars, audioVars, bufferVars,
                       recognitionVars, inboundVars, gainVars>>

InitOutbound == InitSnapshot

NextOutbound ==
    \/ \E text \in OutboundTexts : AddTurn(text)
    \/ \E caller \in Callers, ms \in SpokenAtSamples, language \in Languages,
          silenceMs \in SilenceSamples :
          SendSnapshot(caller, ms, language, silenceMs)
    \/ TransportOpens
    \/ TransportCloses

SpecOutbound == InitOutbound /\ [][NextOutbound]_vars

\* the fields that the backend's message format names for the snapshot
SnapshotFields == {"lastTurns", "lastSpokenAt", "detectedLanguage"}

\* C35: the lastSpokenAt of an outgoing pause_detected frame is the speech hook's
\* lastSpokenAt in whole seconds, or null when there is none, whichever
\* orchestrator built the snapshot.
C35_SecondsOnTheWire ==
    \A i \in DOMAIN outgoing :
        outgoing[i].lastSpokenAt = Seconds(spokenAtMs)

\* what holds instead: the frame carries the value in whole seconds when the
\* caller floored it (the caller that normalises the language)
C35_SecondsWhenCallerFloors ==
    \A i \in DOMAIN outgoing :
        outgoing[i].detectedLanguage \in {"english", "hindi"} =>
            outgoing[i].lastSpokenAt = Seconds(spokenAtMs)

---------------------------------------------------------------------------
(* Playback scheduler: src/hooks/useStreamingAudio.ts *)

\* A chunk is [id, dur]: its position in the order in which queueChunk received
\* it and the duration of the buffer it decodes to. A source is [id, start, dur].
(* Bounds of the scheduler's model *)
MaxChunks == 3      \* chunks queued in one behaviour
MaxDuration == 2    \* longest decoded chunk, in ticks
MaxAudioTime == 7   \* last tick of the engine clock

Max(a, b) == IF a >= b THEN a ELSE b

RECURSIVE SumDur(_)
SumDur(S) ==
    IF S = {} THEN 0
    ELSE LET c == CHOOSE x \in S : TRUE IN c.dur + SumDur(S \ {c})

QueuedChunks == {chunkQueue[i] : i \in DOMAIN chunkQueue}

\* engine time at which everything queued so far has finished playing if the
\* clock reads t and nothing else is queued
PlaybackHorizon(t) ==
    Max(t, nextPlayTime) + SumDur(QueuedChunks) + SumDur(decoding)

\* what the scheduler's steps leave alone
AudioFrame ==
    UNCHANGED <<transportVars, clockVars, snapshotVars, bufferVars,
                recognitionVars, inboundVars, outboundVars, gainVars, isListening,
                lastSpokenAt, lastSpokenAtRef, pauseTriggered,
                lastSuggestionTime, silenceDuration, isPaused, isInCooldown,
                justFired, firedInEpisode, playbackEndedAt>>

\* lines 115-119: the first source of a response reports the start of playback
\* (setIsPlaying(true), onPlaybackStart = VoiceAssistant.handlePlaybackStart)
ReportStart ==
    IF ~playbackStarted
    THEN /\ playbackStarted' = TRUE
         /\ isPlaying' = TRUE
         /\ appState' = "speaking"
    ELSE UNCHANGED <<playbackStarted, isPlaying, appState>>

\* lines 131-133 and 176-179: setIsPlaying(false), onPlaybackEnd =
\* VoiceAssistant.handlePlaybackEnd, then the orchestrator's render
ReportEnd ==
    /\ playbackStarted' = FALSE
    /\ isPlaying' = FALSE
    /\ appState' = StateAfterRender(isListening, FALSE, appState)

\* lines 128-130: the test the ended handler makes after removing its source
AllDone(nodes) == ~isStreaming /\ chunkQueue = << >> /\ nodes = {}

\* line 109; StartAtCursor is the scheduler without the clamp to the clock
StartAtCursor(t, cursor) == cursor

StartTime(t, cursor) == Max(t, cursor)

\* a loop that gives up at the chunk it was handling: the rest of the queue and
\* isProcessingRef stay as they are
LoopAborts(c) ==
    /\ decoding' = decoding \ {c}
    /\ UNCHANGED <<chunkQueue, isProcessing>>

\* lines 91-93 and 142 after one chunk c has been handled: the loop takes the
\* next chunk into decodeAudioData, or leaves and clears isProcessingRef
LoopContinues(c) ==
    IF chunkQueue # << >>
    THEN /\ decoding' = (decoding \ {c}) \cup {Head(chunkQueue)}
         /\ chunkQueue' = Tail(chunkQueue)
         /\ UNCHANGED isProcessing
    ELSE /\ decoding' = decoding \ {c}
         /\ isProcessing' = FALSE
         /\ UNCHANGED chunkQueue

\* The server sends the chunks of one response and then suggestion_end, which
\* reaches finishStream; stop() abandons the response. isStreamingRef is set
\* from the first queueChunk of a response until one of the two, so a chunk
\* queued while it is set belongs to the response of the chunk before it.
ResponseOfNextChunk ==
    IF responseOf = << >> THEN 1
    ELSE IF isStreaming THEN responseOf[Len(responseOf)]
    ELSE responseOf[Len(responseOf)] + 1

\* queueChunk (145-150) with the synchronous head of processQueue (84-97)
QueueChunk(dur) ==
    /\ chunksQueued < MaxChunks
    /\ PlaybackHorizon(currentTime) + dur <= MaxAudioTime
    /\ chunksQueued' = chunksQueued + 1
    /\ isStreaming' = TRUE
    /\ LET chunk == [id |-> chunksQueued + 1, dur |-> dur]
           queue == Append(chunkQueue, chunk)
       IN IF isProcessing
          THEN /\ chunkQueue' = queue
               /\ UNCHANGED <<decoding, isProcessing>>
          ELSE /\ isProcessing' = TRUE
               /\ decoding' = decoding \cup {Head(queue)}
               /\ chunkQueue' = Tail(queue)
    /\ UNCHANGED <<sourceNodes, detached, nextPlayTime, playbackStarted,
                   currentTime, timeline, stoppedAfter,
                   stoppedPlayback, everScheduled, isPlaying, appState>>
    /\ responseOf' = Append(responseOf, ResponseOfNextChunk)

\* queueChunk called on its own
queueChunk(dur) == QueueChunk(dur) /\ AudioFrame

\* decodeAudioData resolves (97): lines 100-136, then the loop goes on
DecodeCompletes(c) ==
    /\ c \in decoding
    /\ LET startTime == StartTime(currentTime, nextPlayTime)
       IN /\ sourceNodes' = sourceNodes \cup
                   {[id |-> c.id, start |-> startTime, dur |-> c.dur]}
          /\ nextPlayTime' = startTime + c.dur
          /\ timeline' = Append(timeline,
                   [id |-> c.id, start |-> startTime, dur |-> c.dur,
                    at |-> currentTime])
    /\ ReportStart
    /\ LoopContinues(c)
    /\ everScheduled' = everScheduled \cup {c.id}
    /\ UNCHANGED <<detached, isStreaming, currentTime, chunksQueued,
                   stoppedAfter, stoppedPlayback, responseOf>>
    /\ AudioFrame

\* decodeAudioData rejects: the catch of lines 137-139 drops the chunk
DecodeFails(c) ==
    /\ c \in decoding
    /\ LoopContinues(c)
    /\ UNCHANGED <<sourceNodes, detached, nextPlayTime, playbackStarted,
                   isStreaming, currentTime, chunksQueued, timeline,
                   stoppedAfter, stoppedPlayback, responseOf, everScheduled,
                   isPlaying, appState>>
    /\ AudioFrame

\* the ended event of a source that is still in sourceNodesRef (123-136)
SourceEnds(s) ==
    /\ s \in sourceNodes
    /\ currentTime >= s.start + s.dur
    /\ sourceNodes' = sourceNodes \ {s}
    /\ IF AllDone(sourceNodes \ {s})
       THEN ReportEnd
       ELSE UNCHANGED <<playbackStarted, isPlaying, appState>>
    /\ UNCHANGED <<chunkQueue, decoding, detached, nextPlayTime, isStreaming,
                   isProcessing, currentTime, chunksQueued, timeline,
                   stoppedAfter, stoppedPlayback, responseOf, everScheduled>>
    /\ AudioFrame

\* the ended event of a source that stop() has already removed: indexOf is -1
DetachedSourceEnds ==
    /\ detached > 0
    /\ detached' = detached - 1
    /\ IF AllDone(sourceNodes)
       THEN ReportEnd
       ELSE UNCHANGED <<playbackStarted, isPlaying, appState>>
    /\ UNCHANGED <<chunkQueue, decoding, sourceNodes, nextPlayTime,
                   isStreaming, isProcessing, currentTime, chunksQueued,
                   timeline, stoppedAfter, stoppedPlayback, responseOf,
                   everScheduled>>
    /\ AudioFrame

\* finishStream (152-156)
finishStream ==
    /\ isStreaming' = FALSE
    /\ UNCHANGED <<chunkQueue, decoding, sourceNodes, detached, nextPlayTime,
                   playbackStarted, isProcessing, currentTime, chunksQueued,
                   timeline, stoppedAfter, stoppedPlayback, responseOf,
                   everScheduled, isPlaying, appState>>
    /\ AudioFrame

\* the body of stop (158-181). A decodeAudioData call in flight is not
\* cancelled.
StopPlayback ==
    /\ detached' = detached + Cardinality(sourceNodes)
    /\ sourceNodes' = {}
    /\ chunkQueue' = << >>
    /\ isStreaming' = FALSE
    /\ isProcessing' = FALSE
    /\ nextPlayTime' = 0
    /\ ReportEnd
    /\ timeline' = << >>
    /\ stoppedAfter' = chunksQueued
    /\ stoppedPlayback' = playbackStarted
    /\ UNCHANGED <<decoding, currentTime, chunksQueued, responseOf,
                   everScheduled>>

\* stop called on its own
stop == StopPlayback /\ AudioFrame

\* the engine clock advances by one tick
EngineClockAdvances ==
    /\ PlaybackHorizon(currentTime + 1) <= MaxAudioTime
    /\ currentTime' = currentTime + 1
    /\ UNCHANGED <<chunkQueue, decoding, sourceNodes, detached, nextPlayTime,
                   playbackStarted, isStreaming, isProcessing, chunksQueued,
                   timeline, stoppedAfter, stoppedPlayback, responseOf,
                   everScheduled, isPlaying, appState>>
    /\ AudioFrame

InitAudio ==
    InitTransport /\ InitDetectorAtRest /\ InitSnapshotEmpty /\ InitDevicesAtRest

NextAudio ==
    \/ \E dur \in 1..MaxDuration : queueChunk(dur)
    \/ finishStream
    \/ stop
    \/ \E c \in decoding : DecodeCompletes(c)
    \/ \E c \in decoding : DecodeFails(c)
    \/ \E s \in sourceNodes : SourceEnds(s)
    \/ DetachedSourceEnds
    \/ EngineClockAdvances

SpecAudio == InitAudio /\ [][NextAudio]_vars

\* The browser settles every decodeAudioData promise, delivers every ended
\* event and keeps the engine clock running; the callers of queueChunk,
\* finishStream and stop are under no obligation.
AudioEngineFairness ==
    /\ WF_vars(\E c \in decoding : DecodeCompletes(c) \/ DecodeFails(c))
    /\ WF_vars(\E s \in sourceNodes : SourceEnds(s))
    /\ WF_vars(DetachedSourceEnds)
    /\ WF_vars(EngineClockAdvances)

SpecAudioLive == InitAudio /\ [][NextAudio]_vars /\ AudioEngineFairness

---------------------------------------------------------------------------
(* Playback scheduler: properties *)

WindowEnd(w) == w.start + w.dur

\* C11 as stated: the windows scheduled on one timeline are contiguous, each
\* chunk starting exactly where the chunk scheduled before it ends, whenever
\* the chunks reach the scheduler. Violated: a chunk that is scheduled after the
\* previous window has already ended starts at the clock, leaving a gap.
C11_ContiguousWindows ==
    \A i \in 1..(Len(timeline) - 1) :
        timeline[i + 1].start = WindowEnd(timeline[i])

\* C11 amended: each chunk starts at the end of the previous window or at the
\* engine time at which it is scheduled, whichever is later. Windows therefore
\* never overlap, each lasts its chunk's decoded duration, and they are
\* contiguous exactly when the chunk is scheduled before the previous ends.
C11_WindowsFollowCursorOrClock ==
    \A i \in 1..(Len(timeline) - 1) :
        /\ timeline[i + 1].start =
               Max(WindowEnd(timeline[i]), timeline[i + 1].at)
        /\ timeline[i + 1].start >= WindowEnd(timeline[i])

\* three chunks scheduled in queue order, the second right behind the first,
\* the third after an underrun
C11_Witness ==
    /\ Len(timeline) = 3
    /\ \A i \in 1..3 : timeline[i].id = i
    /\ timeline[2].start = WindowEnd(timeline[1])
    /\ timeline[3].start > WindowEnd(timeline[2])

\* a step that schedules the first chunk queued after the latest stop()
FirstFreshChunkScheduled ==
    /\ stoppedAfter >= 0
    /\ stoppedPlayback
    /\ Len(timeline') = Len(timeline) + 1
    /\ timeline'[Len(timeline')].id > stoppedAfter
    /\ \A i \in DOMAIN timeline : timeline[i].id <= stoppedAfter

\* C12: stop() leaves no scheduled source and no pending chunk, and the first
\* chunk scheduled for a queueChunk call made after stop() starts at the
\* engine's current time. Violated: a chunk that was inside decodeAudioData
\* when stop() ran is scheduled afterwards and moves the cursor, so the first
\* chunk of the next response starts behind it.
C12_StopStartsNewTimeline ==
    [][ /\ stop => (sourceNodes' = {} /\ chunkQueue' = << >>)
        /\ FirstFreshChunkScheduled =>
               timeline'[Len(timeline')].start = currentTime ]_vars

\* the part of C12 that holds: whatever is scheduled first after stop() starts
\* at the engine's current time
C12_FirstWindowAfterStopAtClock ==
    (stoppedAfter >= 0 /\ timeline # << >>) =>
        timeline[1].start = timeline[1].at

\* nothing is queued, being decoded or scheduled, and finishStream() has been
\* called since the last chunk
PlaybackOver ==
    /\ ~isStreaming
    /\ chunkQueue = << >>
    /\ decoding = {}
    /\ sourceNodes = {}

\* C13: once a response whose start was reported (playbackStartedRef is set
\* from onPlaybackStart until onPlaybackEnd) has nothing left to play and its
\* stream is finished, its end is eventually reported. Violated: when the last
\* source ends before finishStream() is called, nothing reports the end.
C13_PlaybackEndFollowsStart ==
    (playbackStarted /\ PlaybackOver) ~> ~playbackStarted

C21_ArrivalOrderWithoutStop ==
    stoppedAfter = -1 =>
        \A i, j \in DOMAIN timeline :
            i < j => /\ timeline[i].id < timeline[j].id
                     /\ timeline[i].start <= timeline[j].start

\* chunk c was queued before the latest stop(): stop() emptied the queue, so a
\* c that is still being decoded was inside decodeAudioData when stop() ran
StaleDecode(c) == c \in decoding /\ c.id <= stoppedAfter

DrainLoops == Cardinality(decoding)

\* C37: at most one drain loop of processQueue is running at any time.
\* Violated: stop() clears isProcessingRef while a loop waits for its decode,
\* and the next queueChunk starts a second loop beside it.
C37_OneDrainLoop == DrainLoops <= 1

\* the part of C37 that holds: while stop() has never run there is one loop
C37_OneDrainLoopWithoutStop == stoppedAfter = -1 => DrainLoops <= 1

\* C23: a rejected decode drops its chunk only. The step schedules nothing and
\* leaves the cursor alone; the loop goes on with the chunk at the head of the
\* queue, or clears isProcessingRef when the queue is empty; and no chunk is
\* ever left in the queue with no loop to take it.
C23_DecodeFailureSkipsOneChunk ==
    [][ /\ \A c \in decoding :
               DecodeFails(c) =>
                   /\ UNCHANGED <<nextPlayTime, sourceNodes, timeline>>
                   /\ IF chunkQueue # << >>
                      THEN /\ Head(chunkQueue) \in decoding'
                           /\ chunkQueue' = Tail(chunkQueue)
                           /\ isProcessing'
                      ELSE ~isProcessing'
        /\ decoding' = {} => (chunkQueue' = << >> /\ ~isProcessing') ]_vars

\* the first chunk's decode was rejected with two chunks waiting, and both of
\* them were scheduled afterwards, back to back and in order, by a loop that
\* has ended
C23_Witness ==
    /\ stoppedAfter = -1
    /\ chunksQueued = 3
    /\ Len(timeline) = 2
    /\ timeline[1].id = 2
    /\ timeline[2].id = 3
    /\ timeline[2].start = WindowEnd(timeline[1])
    /\ decoding = {}
    /\ ~isProcessing

\* no chunk of c's response has been handed to source.start() yet
FirstOfItsResponse(c) ==
    \A i \in everScheduled : responseOf[i] # responseOf[c.id]

\* the step that schedules c emits onPlaybackStart (115-119)
EmitsPlaybackStart(c) == DecodeCompletes(c) /\ ~playbackStarted

\* C24: onPlaybackStart is emitted when the first chunk of a response is
\* scheduled, and for no later chunk of that response. Violated both ways:
\* stop(), or an end reported while a decode is pending, resets
\* playbackStartedRef, and the next chunk of the same response emits the start
\* again; and a response whose first chunk is scheduled while
\* playbackStartedRef is still set from the response before emits none.
C24_StartOncePerResponse ==
    [][ \A c \in decoding :
            DecodeCompletes(c) =>
                (EmitsPlaybackStart(c) <=> FirstOfItsResponse(c)) ]_vars

---------------------------------------------------------------------------
(* Playback scheduler: the volume option, useStreamingAudio.ts lines 62-80 *)

\* the values of the volume option, in tenths
VolumeSamples == {3, 7}

\* The hook is rendered with another volume. Both effects have [volume] as
\* their dependency. The cleanup of the first (69-72) disconnects the gain node
\* that every source created so far is connected to (102); the effect then
\* creates a gain node for the new value and connects that one to the
\* destination (64-67). The second effect writes the value once more (77-79).
SetVolume(v) ==
    /\ v # volume
    /\ volume' = v
    /\ unplugged' = unplugged \cup {s.id : s \in sourceNodes}
    /\ UNCHANGED <<transportVars, clockVars, pauseVars, snapshotVars,
                   audioVars, bufferVars, recognitionVars, inboundVars,
                   outboundVars>>

InitVolume == InitAudio

NextVolume ==
    \/ \E dur \in 1..MaxDuration : queueChunk(dur)
    \/ finishStream
    \/ \E c \in decoding : DecodeCompletes(c)
    \/ \E s \in sourceNodes : SourceEnds(s)
    \/ EngineClockAdvances
    \/ \E v \in VolumeSamples : SetVolume(v)

SpecVolume == InitVolume /\ [][NextVolume]_vars

\* a step that changes the volume option
VolumeChanges == volume' # volume

\* C36: a change of the volume leaves every scheduled source connected to the
\* audio output and at its scheduled time, and leaves the queue and the
\* timeline cursor as they are. Violated: the sources stay connected to the
\* gain node that the effect's cleanup has disconnected.
C36_VolumeChangeKeepsPlayback ==
    [][ VolumeChanges =>
            /\ \A s \in sourceNodes : s.id \notin unplugged => s.id \notin unplugged'
            /\ UNCHANGED <<sourceNodes, chunkQueue, decoding, nextPlayTime,
                           timeline>> ]_vars

\* the part of C36 that holds: the schedule, the queue and the cursor
C36_VolumeChangeKeepsSchedule ==
    [][ VolumeChanges =>
            UNCHANGED <<sourceNodes, chunkQueue, decoding, nextPlayTime,
                        timeline>> ]_vars

---------------------------------------------------------------------------
(* Turn buffer: recentTurns of useSpeechRecognition *)

(* Bounds of the buffer's model *)
BUFFER_DURATION == 3    \* the rolling window, in ticks
MaxBufferLen == 3       \* turns held at the same time

\* transcripts of finalized results
SpokenTexts == { <<"Hi">>, <<"um", Space, Space, "hi", Space>> }

\* the filter of lines 47-51 and 107-110; KeepsEveryTurn is a buffer that
\* never evicts
KeepsEveryTurn(turn, t) == TRUE

IsFresh(turn, t) == turn.timestamp > t - BUFFER_DURATION

Sweep(buffer, t) == SelectSeq(buffer, LAMBDA turn : IsFresh(turn, t))

\* recognition.onresult with one final result (91-125): the turn is appended
\* and the buffer filtered, then setLastSpokenAt and the detector's effect on it
onFinalResult(text) ==
    /\ isListening
    /\ LET newTurn == [text |-> trim(text), timestamp |-> now]
           updated == Append(recentTurns, newTurn)
       IN /\ Len(Sweep(updated, now)) <= MaxBufferLen
          /\ recentTurns' = Sweep(updated, now)
          /\ evicted' = (Len(Sweep(updated, now)) < Len(updated))
    /\ lastSpokenAt' = now
    /\ IF now # lastSpokenAt /\ now # lastSpokenAtRef
       THEN /\ lastSpokenAtRef' = now
            /\ isPaused' = FALSE
            /\ pauseTriggered' = FALSE
            /\ firedInEpisode' = 0
       ELSE UNCHANGED <<lastSpokenAtRef, isPaused, pauseTriggered, firedInEpisode>>
    /\ justFired' = FALSE
    /\ UNCHANGED <<transportVars, clockVars, snapshotVars, audioVars,
                   recognitionVars, inboundVars, outboundVars, gainVars, isListening,
                   lastSuggestionTime, silenceDuration, isInCooldown,
                   appState, isPlaying, playbackEndedAt>>

\* cleanBuffer (47-51), called by the interval of lines 208-212
cleanBuffer ==
    /\ recentTurns' = Sweep(recentTurns, now)
    /\ evicted' = (Len(Sweep(recentTurns, now)) < Len(recentTurns))
    /\ justFired' = FALSE
    /\ UNCHANGED <<transportVars, clockVars, snapshotVars, audioVars,
                   recognitionVars, inboundVars, outboundVars, gainVars, isListening, lastSpokenAt,
                   lastSpokenAtRef, pauseTriggered,
                   lastSuggestionTime, silenceDuration, isPaused, isInCooldown,
                   appState, isPlaying, firedInEpisode, playbackEndedAt>>

InitBuffer ==
    InitTransport /\ InitDetectorAtRest /\ InitSnapshotEmpty /\ InitDevicesAtRest

NextBuffer ==
    \/ StartListening
    \/ \E text \in SpokenTexts : onFinalResult(text)
    \/ cleanBuffer
    \/ Tick
    \/ ClockAdvances

SpecBuffer == InitBuffer /\ [][NextBuffer]_vars

---------------------------------------------------------------------------
(* Turn buffer: properties *)

TimeOrdered(buffer) ==
    \A i \in 1..(Len(buffer) - 1) : buffer[i].timestamp <= buffer[i + 1].timestamp

\* C14 as stated: the buffer never holds a turn older than the window
\* (timestamp < now - window) and is always in non-decreasing timestamp order.
\* Violated: turns are evicted only by an insert or a sweep, so a turn outlives
\* the window while the clock advances between them.
C14_NeverStaleAndOrdered ==
    /\ \A i \in DOMAIN recentTurns :
           ~(recentTurns[i].timestamp < now - BUFFER_DURATION)
    /\ TimeOrdered(recentTurns)

\* C14 amended: the buffer is always in non-decreasing timestamp order, and
\* right after every insert and every sweep each of its turns is younger than
\* the window (timestamp > now - window).
C14_FreshAfterInsertOrSweep ==
    [][ /\ TimeOrdered(recentTurns')
        /\ ((\E text \in SpokenTexts : onFinalResult(text)) \/ cleanBuffer) =>
               \A i \in DOMAIN recentTurns' :
                   recentTurns'[i].timestamp > now' - BUFFER_DURATION ]_vars

\* an insert or a sweep has just evicted a turn and kept two others
C14_Witness ==
    /\ evicted
    /\ Len(recentTurns) >= 2
    /\ recentTurns[1].timestamp < recentTurns[2].timestamp

---------------------------------------------------------------------------
(* Transcription controller: what both variants of useSpeechRecognition share *)

\* An engine session is [state, fault, onend]:
\*   state  "starting"  start() was called, the engine has not reported start
\*          "running"   onstart has fired
\*          "stopping"  stop() was called, the engine has not reported end
\*          "failing"   onerror has fired, the engine has not reported end
\*          "ended"     onend has fired and a restart timer still holds the object
\*   fault  the error the session reported, "none" if none
\*   onend  the session still has its onend handler
(* Bounds of the controller's model *)
MaxSessions == 2    \* session objects not yet discarded at the same time
MaxNetFaults == 5   \* network faults counted in a row

(* Program constants *)
maxNetworkRetries == 3
BackoffStartMs == 1000
BackoffCapMs == 15000

PermissionDenied == "Microphone permission denied"
NetworkRetrying == "Network error - retrying..."
NetworkTerminal == "Network error. Tap to restart listening."
NetworkError == "Network error - check your connection"
OtherError == "Speech recognition error"

\* SpeechRecognitionErrorEvent.error values the model's engine reports
ErrorTypes == {"not-allowed", "no-speech", "network", "aborted"}

Live(s) == sessions[s].state \in {"starting", "running", "stopping", "failing"}

LiveSessions == {s \in DOMAIN sessions : Live(s)}

FreshSession == CHOOSE s \in 1..MaxSessions : s \notin DOMAIN sessions

With(f, s, r) == [x \in DOMAIN f \cup {s} |-> IF x = s THEN r ELSE f[x]]

Without(f, S) == [x \in DOMAIN f \ S |-> f[x]]

InState(f, s, state) == [f EXCEPT ![s].state = state]

\* recognition.stop() on the object o: a session that is starting or running
\* goes on to report its end; any other object is left as it is
Stopped(f, o) ==
    IF o \in DOMAIN f /\ f[o].state \in {"starting", "running"}
    THEN InState(f, o, "stopping")
    ELSE f

\* setIsListening(v), the detector's effect on [isListening] and the
\* orchestrator's effect on [isListening, isAISpeaking]
SetIsListening(v) ==
    /\ isListening' = v
    /\ appState' = IF v # isListening
                   THEN StateAfterRender(v, isPlaying, appState)
                   ELSE appState
    /\ IF isListening /\ ~v
       THEN /\ silenceDuration' = 0
            /\ isPaused' = FALSE
            /\ pauseTriggered' = FALSE
       ELSE UNCHANGED <<silenceDuration, isPaused, pauseTriggered>>

ListeningKept ==
    UNCHANGED <<isListening, appState, silenceDuration, isPaused, pauseTriggered>>

SpeechKept == UNCHANGED <<lastSpokenAt, lastSpokenAtRef, firedInEpisode>>

\* setLastSpokenAt(Date.now()) and the detector's effect on [lastSpokenAt]
SetLastSpokenAt ==
    /\ lastSpokenAt' = now
    /\ IF now # lastSpokenAt /\ now # lastSpokenAtRef
       THEN /\ lastSpokenAtRef' = now
            /\ isPaused' = FALSE
            /\ pauseTriggered' = FALSE
            /\ firedInEpisode' = 0
       ELSE UNCHANGED <<lastSpokenAtRef, isPaused, pauseTriggered, firedInEpisode>>

\* what the controller's steps leave alone
RecognitionFrame ==
    UNCHANGED <<transportVars, snapshotVars, audioVars, bufferVars,
                inboundVars, outboundVars, gainVars, detectedLanguage, batching,
                lastSuggestionTime, isInCooldown, isPlaying, justFired,
                playbackEndedAt>>

---------------------------------------------------------------------------
(* Transcription controller with retry accounting:                         *)
(* echo-ai/src/hooks/useSpeechRecognition.ts, lines 26-231                 *)

\* startListening (51-173) in a browser that supports speech recognition
Retry_startListening ==
    /\ Cardinality(DOMAIN sessions) < MaxSessions
    /\ speechError' = "null"
    /\ sessions' = With(sessions, FreshSession,
                        [state |-> "starting", fault |-> "none", onend |-> TRUE])
    /\ recognitionRef' = FreshSession
    /\ netFaults' = 0
    /\ userStopped' = FALSE
    /\ permissionDenied' = FALSE
    /\ UNCHANGED <<restartTimer, refreshTimers, shouldRestart, retryCount,
                   lastErrorType, backoffMs, lastResultTime, now>>
    /\ ListeningKept /\ SpeechKept /\ RecognitionFrame

\* recognition.onstart (73-80)
Retry_onstart(s) ==
    /\ s \in DOMAIN sessions
    /\ sessions[s].state = "starting"
    /\ sessions' = InState(sessions, s, "running")
    /\ SetIsListening(TRUE)
    /\ shouldRestart' = TRUE
    /\ backoffMs' = BackoffStartMs
    /\ retryCount' = 0
    /\ lastErrorType' = "null"
    /\ UNCHANGED <<recognitionRef, restartTimer, refreshTimers, speechError,
                   lastResultTime, netFaults, userStopped, permissionDenied,
                   now>>
    /\ SpeechKept /\ RecognitionFrame

\* recognition.onresult (82-121) with an interim result
Retry_onresult(s) ==
    /\ s \in DOMAIN sessions
    /\ sessions[s].state = "running"
    /\ SetLastSpokenAt
    /\ netFaults' = 0
    /\ UNCHANGED <<sessions, recognitionRef, restartTimer, refreshTimers,
                   shouldRestart, retryCount, lastErrorType, backoffMs,
                   speechError, lastResultTime, userStopped, permissionDenied,
                   now, isListening, appState, silenceDuration>>
    /\ RecognitionFrame

\* the test of lines 137 and 154
RetriesExhausted(count) == count > maxNetworkRetries

\* recognition.onerror (124-148); the engine reports the end afterwards
Retry_onerror(s, type) ==
    /\ s \in DOMAIN sessions
    /\ sessions[s].state \in {"starting", "running"}
    /\ type = "network" => (netFaults < MaxNetFaults /\ retryCount < MaxNetFaults)
    /\ sessions' = [sessions EXCEPT ![s].state = "failing", ![s].fault = type]
    /\ lastErrorType' = type
    /\ netFaults' = IF type = "network" THEN netFaults + 1 ELSE 0
    /\ permissionDenied' = (permissionDenied \/ type = "not-allowed")
    /\ CASE type = "not-allowed" ->
              /\ speechError' = PermissionDenied
              /\ SetIsListening(FALSE)
              /\ shouldRestart' = FALSE
              /\ UNCHANGED retryCount
         [] type = "no-speech" ->
              /\ UNCHANGED <<speechError, shouldRestart, retryCount>>
              /\ ListeningKept
         [] type = "network" ->
              /\ retryCount' = retryCount + 1
              /\ IF RetriesExhausted(retryCount + 1)
                 THEN /\ speechError' = NetworkTerminal
                      /\ shouldRestart' = FALSE
                 ELSE /\ speechError' = NetworkRetrying
                      /\ shouldRestart' = TRUE
              /\ ListeningKept
         [] OTHER ->
              /\ speechError' = OtherError
              /\ UNCHANGED <<shouldRestart, retryCount>>
              /\ ListeningKept
    /\ UNCHANGED <<recognitionRef, restartTimer, refreshTimers, backoffMs,
                   lastResultTime, userStopped, now>>
    /\ SpeechKept /\ RecognitionFrame

\* recognition.onend (150-173): after an error, after stop() or by the engine's
\* own timeout. An ended object stays only while a restart timer holds it.
Retry_onend(s) ==
    /\ s \in DOMAIN sessions
    /\ sessions[s].state \in {"running", "stopping", "failing"}
    /\ IF recognitionRef # 0 /\ shouldRestart
       THEN IF lastErrorType = "network" /\ RetriesExhausted(retryCount)
            THEN /\ SetIsListening(FALSE)
                 /\ sessions' = Without(sessions, {s})
                 /\ UNCHANGED restartTimer
            ELSE /\ restartTimer' = s
                 /\ sessions' = InState(Without(sessions, {restartTimer} \ {s}),
                                        s, "ended")
                 /\ ListeningKept
       ELSE /\ sessions' = Without(sessions, {s})
            /\ UNCHANGED restartTimer
            /\ ListeningKept
    /\ UNCHANGED <<recognitionRef, refreshTimers, shouldRestart, retryCount,
                   lastErrorType, backoffMs, speechError, lastResultTime,
                   netFaults, userStopped, permissionDenied, now>>
    /\ SpeechKept /\ RecognitionFrame

\* the timeout set by onend (163-171): the ended object is started again
Retry_RestartTimerFires ==
    /\ restartTimer # 0
    /\ sessions' = [sessions EXCEPT ![restartTimer].state = "starting",
                                    ![restartTimer].fault = "none"]
    /\ backoffMs' = Min(backoffMs * 2, BackoffCapMs)
    /\ restartTimer' = 0
    /\ UNCHANGED <<recognitionRef, refreshTimers, shouldRestart, retryCount,
                   lastErrorType, speechError, lastResultTime, netFaults,
                   userStopped, permissionDenied, now>>
    /\ ListeningKept /\ SpeechKept /\ RecognitionFrame

\* stopListening (184-198)
Retry_stopListening ==
    /\ IF recognitionRef # 0
       THEN /\ shouldRestart' = FALSE
            /\ lastErrorType' = "null"
            /\ retryCount' = 0
            /\ restartTimer' = 0
            /\ sessions' = Stopped(Without(sessions, {restartTimer}),
                                   recognitionRef)
            /\ recognitionRef' = 0
       ELSE UNCHANGED <<shouldRestart, lastErrorType, retryCount, restartTimer,
                        sessions, recognitionRef>>
    /\ SetIsListening(FALSE)
    /\ netFaults' = 0
    /\ userStopped' = TRUE
    /\ UNCHANGED <<refreshTimers, backoffMs, speechError, lastResultTime,
                   permissionDenied, now>>
    /\ SpeechKept /\ RecognitionFrame

InitRetry ==
    InitTransport /\ InitDetectorAtRest /\ InitSnapshotEmpty /\ InitDevicesAtRest

NextRetry ==
    \/ Retry_startListening
    \/ Retry_stopListening
    \/ \E s \in DOMAIN sessions : Retry_onstart(s)
    \/ \E s \in DOMAIN sessions : Retry_onresult(s)
    \/ \E s \in DOMAIN sessions, type \in ErrorTypes : Retry_onerror(s, type)
    \/ \E s \in DOMAIN sessions : Retry_onend(s)
    \/ Retry_RestartTimerFires

SpecRetry == InitRetry /\ [][NextRetry]_vars

---------------------------------------------------------------------------
(* Transcription controller with retry accounting: properties *)

\* the only session there is, the one the controller holds, reports its end
\* after a network fault that nothing else has followed, and the user has not
\* stopped the controller
EndAfterNetworkFault(s) ==
    /\ Retry_onend(s)
    /\ sessions[s].fault = "network"
    /\ recognitionRef = s
    /\ DOMAIN sessions = {s}
    /\ netFaults >= 1
    /\ ~userStopped

\* C15: when the session ends after the 4th network fault in a row, no restart
\* is scheduled and the terminal error is shown; after the 1st, 2nd or 3rd the
\* restart is scheduled. Violated: onstart resets retryCountRef, so faults of
\* sessions that had reported their start are never counted up to the limit.
C15_StopsAfterFourthNetworkFault ==
    [][ \A s \in DOMAIN sessions :
            EndAfterNetworkFault(s) =>
                IF netFaults > maxNetworkRetries
                THEN restartTimer' = 0 /\ speechError' = NetworkTerminal
                ELSE restartTimer' = s ]_vars

\* the part of C15 that holds: the limit applies to faults of sessions that
\* failed before reporting their start (retryCountRef is what is compared)
C15_StopsAfterFourthFailedStart ==
    [][ \A s \in DOMAIN sessions :
            EndAfterNetworkFault(s) =>
                IF retryCount > maxNetworkRetries
                THEN restartTimer' = 0 /\ speechError' = NetworkTerminal
                ELSE restartTimer' = s ]_vars

\* C26: the 'no-speech' error leaves the retry counter, the recorded class of
\* the last error, the backoff and the error shown as they were. Violated:
\* onerror records every error's class (and time) before it looks at the class.
C26_NoSpeechLeavesAccounting ==
    [][ \A s \in DOMAIN sessions :
            Retry_onerror(s, "no-speech") =>
                UNCHANGED <<retryCount, lastErrorType, backoffMs,
                            speechError, shouldRestart>> ]_vars

---------------------------------------------------------------------------
(* Transcription controller with hard reset: unnamed/part_001              *)

(* Bounds of the hard-reset controller's model *)
WATCHDOG_TIMEOUT == 2       \* the stall window, in ticks
MaxRefreshTimers == 1       \* delayed starts of refreshRecognition pending at the same time

\* line 267: the user spoke within 30 s, three stall windows
RecentSpeechWindow == 3 * WATCHDOG_TIMEOUT

\* ended objects stay only while recognitionRef or the restart timer's closure
\* holds them
Collect(f, ref, timer) ==
    Without(f, {s \in DOMAIN f : f[s].state = "ended" /\ s \notin {ref, timer}})

\* a restart that stops the held session and leaves its onend handler in place
DiscardedWithHandler(f, ref) ==
    IF ref # 0 /\ ref \in DOMAIN f THEN Stopped(f, ref) ELSE f

\* lines 222-228, 59-68 and 190-194: the held session loses its onend handler,
\* is stopped, and the ref is cleared
Discarded(f, ref) ==
    IF ref # 0 /\ ref \in DOMAIN f
    THEN Stopped([f EXCEPT ![ref].onend = FALSE], ref)
    ELSE f

\* the body of startListening (53-181) in a browser that supports speech
\* recognition; timer is the restart timer the calling step leaves pending
StartFresh(timer) ==
    /\ Cardinality(DOMAIN sessions) < MaxSessions
    /\ sessions' = Collect(With(Discarded(sessions, recognitionRef), FreshSession,
                                [state |-> "starting", fault |-> "none",
                                 onend |-> TRUE]),
                           FreshSession, timer)
    /\ recognitionRef' = FreshSession
    /\ speechError' = "null"

\* what the hard-reset controller never uses
RetryRefsKept == UNCHANGED <<shouldRestart, retryCount, lastErrorType, backoffMs>>

\* startListening called by the user
Reset_startListening ==
    /\ StartFresh(restartTimer)
    /\ userStopped' = FALSE
    /\ permissionDenied' = FALSE
    /\ UNCHANGED <<restartTimer, refreshTimers, lastResultTime, netFaults, now>>
    /\ RetryRefsKept /\ ListeningKept /\ SpeechKept /\ RecognitionFrame

\* recognition.onstart (86-89)
Reset_onstart(s) ==
    /\ s \in DOMAIN sessions
    /\ sessions[s].state = "starting"
    /\ sessions' = InState(sessions, s, "running")
    /\ SetIsListening(TRUE)
    /\ UNCHANGED <<recognitionRef, restartTimer, refreshTimers, speechError,
                   lastResultTime, netFaults, userStopped, permissionDenied,
                   now>>
    /\ RetryRefsKept /\ SpeechKept /\ RecognitionFrame

\* recognition.onresult (91-134) with an interim result
Reset_onresult(s) ==
    /\ s \in DOMAIN sessions
    /\ sessions[s].state = "running"
    /\ lastResultTime' = now
    /\ SetLastSpokenAt
    /\ UNCHANGED <<sessions, recognitionRef, restartTimer, refreshTimers,
                   speechError, netFaults, userStopped, permissionDenied, now,
                   isListening, appState, silenceDuration>>
    /\ RetryRefsKept /\ RecognitionFrame

\* recognition.onerror (136-149); the engine reports the end afterwards
Reset_onerror(s, type) ==
    /\ s \in DOMAIN sessions
    /\ sessions[s].state \in {"starting", "running"}
    /\ sessions' = [sessions EXCEPT ![s].state = "failing", ![s].fault = type]
    /\ permissionDenied' = (permissionDenied \/ type = "not-allowed")
    /\ CASE type = "not-allowed" ->
              /\ speechError' = PermissionDenied
              /\ SetIsListening(FALSE)
         [] type = "no-speech" ->
              /\ UNCHANGED speechError
              /\ ListeningKept
         [] type = "network" ->
              /\ speechError' = NetworkError
              /\ ListeningKept
         [] OTHER ->
              /\ speechError' = OtherError
              /\ ListeningKept
    /\ UNCHANGED <<recognitionRef, restartTimer, refreshTimers, lastResultTime,
                   netFaults, userStopped, now>>
    /\ RetryRefsKept /\ SpeechKept /\ RecognitionFrame

\* the engine reports the end of s. With its handler (151-172): the pending
\* restart is cleared, and a new one is set if the controller still holds s.
Reset_onend(s) ==
    /\ s \in DOMAIN sessions
    /\ sessions[s].state \in {"running", "stopping", "failing"}
    /\ restartTimer' = IF ~sessions[s].onend THEN restartTimer
                       ELSE IF recognitionRef = s THEN s
                       ELSE 0
    /\ sessions' = Collect(InState(sessions, s, "ended"), recognitionRef,
                           restartTimer')
    /\ UNCHANGED <<recognitionRef, refreshTimers, speechError, lastResultTime,
                   netFaults, userStopped, permissionDenied, now>>
    /\ RetryRefsKept /\ ListeningKept /\ SpeechKept /\ RecognitionFrame

\* the timeout set by onend (164-170)
Reset_RestartTimerFires ==
    /\ restartTimer # 0
    /\ restartTimer' = 0
    /\ IF recognitionRef = restartTimer
       THEN StartFresh(0)
       ELSE /\ sessions' = Collect(sessions, recognitionRef, 0)
            /\ UNCHANGED <<recognitionRef, speechError>>
    /\ UNCHANGED <<refreshTimers, lastResultTime, netFaults, userStopped,
                   permissionDenied, now>>
    /\ RetryRefsKept /\ ListeningKept /\ SpeechKept /\ RecognitionFrame

\* stopListening (183-197)
Reset_stopListening ==
    /\ restartTimer' = 0
    /\ sessions' = Collect(Discarded(sessions, recognitionRef), 0, 0)
    /\ recognitionRef' = 0
    /\ SetIsListening(FALSE)
    /\ userStopped' = TRUE
    /\ UNCHANGED <<refreshTimers, speechError, lastResultTime, netFaults,
                   permissionDenied, now>>
    /\ RetryRefsKept /\ SpeechKept /\ RecognitionFrame

\* the body of refreshRecognition (215-238): the delayed start keeps the
\* isListening of the render the callback was made in
Refresh ==
    /\ Len(refreshTimers) < MaxRefreshTimers
    /\ restartTimer' = 0
    /\ sessions' = Collect(Discarded(sessions, recognitionRef), 0, 0)
    /\ recognitionRef' = 0
    /\ refreshTimers' = Append(refreshTimers, isListening)

\* refreshRecognition called through the hook's return value at any time, or
\* by the preventive restart interval (242-251) while isListening
refreshRecognition ==
    /\ Refresh
    /\ UNCHANGED <<speechError, lastResultTime, netFaults, userStopped,
                   permissionDenied, now>>
    /\ RetryRefsKept /\ ListeningKept /\ SpeechKept /\ RecognitionFrame

\* a watchdog that looks at the time of the last result only
StalledWhateverWasSpoken == now - lastResultTime > WATCHDOG_TIMEOUT

\* the test of the watchdog interval (259-267)
Stalled ==
    /\ now - lastResultTime > WATCHDOG_TIMEOUT
    /\ lastSpokenAt # 0
    /\ now - lastSpokenAt < RecentSpeechWindow

\* the watchdog interval (255-275), installed while isListening
Watchdog ==
    /\ isListening
    /\ Stalled
    /\ Refresh
    /\ lastResultTime' = now
    /\ UNCHANGED <<speechError, netFaults, userStopped, permissionDenied, now>>
    /\ RetryRefsKept /\ ListeningKept /\ SpeechKept /\ RecognitionFrame

\* the timeout of refreshRecognition (234-236)
RefreshTimerFires ==
    /\ refreshTimers # << >>
    /\ refreshTimers' = Tail(refreshTimers)
    /\ IF Head(refreshTimers)
       THEN StartFresh(restartTimer)
       ELSE UNCHANGED <<sessions, recognitionRef, speechError>>
    /\ UNCHANGED <<restartTimer, lastResultTime, netFaults, userStopped,
                   permissionDenied, now>>
    /\ RetryRefsKept /\ ListeningKept /\ SpeechKept /\ RecognitionFrame

\* Date.now() moves on by one tick
TimePasses ==
    /\ now < MaxTime
    /\ now' = now + 1
    /\ UNCHANGED recognitionVars
    /\ ListeningKept /\ SpeechKept /\ RecognitionFrame

InitReset ==
    InitTransport /\ InitDetectorAtRest /\ InitSnapshotEmpty /\ InitDevicesAtRest

NextReset ==
    \/ Reset_startListening
    \/ Reset_stopListening
    \/ refreshRecognition
    \/ \E s \in DOMAIN sessions : Reset_onstart(s)
    \/ \E s \in DOMAIN sessions : Reset_onresult(s)
    \/ \E s \in DOMAIN sessions, type \in ErrorTypes : Reset_onerror(s, type)
    \/ \E s \in DOMAIN sessions : Reset_onend(s)
    \/ Reset_RestartTimerFires
    \/ RefreshTimerFires
    \/ Watchdog
    \/ TimePasses

SpecReset == InitReset /\ [][NextReset]_vars

---------------------------------------------------------------------------
(* Transcription controller with hard reset: properties *)

\* a step in which start() is called on a session object
SessionStarts ==
    \E s \in DOMAIN sessions' :
        /\ sessions'[s].state = "starting"
        /\ s \in DOMAIN sessions => sessions[s].state # "starting"

\* C16: the 'not-allowed' fault stops the controller with the permission error
\* shown, and from then on no session is started before the user calls
\* startListening(). Violated: onend still finds the failed session in
\* recognitionRef and schedules a fresh start.
C16_NoSessionAfterPermissionFault ==
    [][ /\ \A s \in DOMAIN sessions :
               Reset_onerror(s, "not-allowed") =>
                   (~isListening' /\ speechError' = PermissionDenied)
        /\ (permissionDenied /\ permissionDenied') => ~SessionStarts ]_vars

\* C17: between stopListening() and the user's next startListening() no
\* session is started. Violated: the delayed start of a refresh that was
\* requested before stop() still sees isListening = true.
C17_NoSessionAfterStop ==
    [][ (userStopped /\ userStopped') => ~SessionStarts ]_vars

\* C18: at most one session is live (started and its end not yet reported).
\* Violated: startListening stops the held session and starts the next one in
\* the same step.
C18_OneLiveSession == Cardinality(LiveSessions) <= 1

\* starts of a session that are pending: the restart timer of onend and the
\* delayed starts of refreshRecognition
PendingStarts == (IF restartTimer # 0 THEN 1 ELSE 0) + Len(refreshTimers)

\* a step in which the engine reports the end of a session the controller has
\* discarded before
LateEnd(s) == Reset_onend(s) /\ s # recognitionRef

\* C25: a session that the controller no longer holds has lost its onend
\* handler, so its late end neither starts a session nor touches the pending
\* restart; each step starts at most one session, and a session is started only
\* by the user's startListening or by using up one pending start, of which one
\* session end or one refresh() creates at most one.
C25_OneRestartPerCause ==
    [][ /\ \A s \in DOMAIN sessions' :
               s # recognitionRef' => ~sessions'[s].onend
        /\ \A s \in DOMAIN sessions :
               LateEnd(s) => (restartTimer' = restartTimer /\ ~SessionStarts)
        /\ SessionStarts =>
               /\ Cardinality({s \in DOMAIN sessions' :
                                   sessions'[s].state = "starting"}) = 1
               /\ \/ Reset_startListening
                  \/ PendingStarts' = PendingStarts - 1
        /\ PendingStarts' <= PendingStarts + 1 ]_vars

\* a restart has discarded a running session, which has lost its handler and
\* has not reported its end yet, and the session that replaced it has started
C25_Witness ==
    \E s \in DOMAIN sessions :
        /\ sessions[s].state = "stopping"
        /\ ~sessions[s].onend
        /\ recognitionRef \in DOMAIN sessions \ {s}
        /\ sessions[recognitionRef].state = "running"
        /\ restartTimer = 0

\* C27: the watchdog refreshes the session only when the last result is more
\* than the stall window old and the user spoke less than three stall windows
\* ago; with no speech at all, or none within three windows, it does nothing.
C27_WatchdogOnlyAfterRecentSpeech ==
    [][ Watchdog =>
            /\ now - lastResultTime > WATCHDOG_TIMEOUT
            /\ lastSpokenAt # 0
            /\ now - lastSpokenAt < 3 * WATCHDOG_TIMEOUT ]_vars

\* the watchdog has just refreshed: the result clock was reset at a time at
\* which no result arrived, the session is discarded and a start is pending
C27_Witness ==
    /\ lastResultTime = now
    /\ lastSpokenAt # 0
    /\ now - lastSpokenAt > WATCHDOG_TIMEOUT
    /\ recognitionRef = 0
    /\ refreshTimers # << >>
    /\ isListening

---------------------------------------------------------------------------
(* Transcription controller with hard reset: finalized results and the     *)
(* language tag, part_001 lines 98-128                                     *)

(* Program constants *)
DevanagariFirst == 2304     \* ऀ
DevanagariLast == 2431      \* ॿ

\* Transcripts are sequences of tokens; a token named uXXXX is the character
\* with that code point, any other token is a run of Latin letters.
ResultTexts == { <<"Hi", Space, "u0980">>, <<"Hi", Space, "u097F">> }

\* SpeechRecognitionAlternative.confidence: 0 where the engine reports none
Confidences == {0, 1}

CharCode(token) ==
    CASE token = "u08FF" -> 2303
      [] token = "u0900" -> 2304
      [] token = "u0928" -> 2344
      [] token = "u097F" -> 2431
      [] token = "u0980" -> 2432
      [] token = Space -> 32
      [] OTHER -> 104

\* /[ऀ-ॿ]/.test(text), line 119
hasDevanagari(text) ==
    \E i \in DOMAIN text :
        /\ CharCode(text[i]) >= DevanagariFirst
        /\ CharCode(text[i]) <= DevanagariLast

\* lines 117-123
LanguageAfter(language, text, confidence) ==
    IF confidence # 0 /\ hasDevanagari(text) THEN "hi-IN" ELSE language

\* recognition.onresult (91-134) with one final result
Reset_onfinalresult(s, text, confidence) ==
    /\ s \in DOMAIN sessions
    /\ sessions[s].state = "running"
    /\ lastResultTime' = now
    /\ LET newTurn == [text |-> trim(text), timestamp |-> now]
           updated == Append(recentTurns, newTurn)
       IN /\ Len(Sweep(updated, now)) <= MaxBufferLen
          /\ recentTurns' = Sweep(updated, now)
          /\ evicted' = (Len(Sweep(updated, now)) < Len(updated))
    /\ SetLastSpokenAt
    /\ detectedLanguage' = LanguageAfter(detectedLanguage, text, confidence)
    /\ UNCHANGED <<sessions, recognitionRef, restartTimer, refreshTimers,
                   speechError, netFaults, userStopped, permissionDenied, now,
                   isListening, appState, silenceDuration>>
    /\ UNCHANGED <<transportVars, snapshotVars, audioVars, inboundVars, outboundVars, gainVars,
                   batching, lastSuggestionTime, isInCooldown, isPlaying,
                   justFired, playbackEndedAt>>
    /\ RetryRefsKept

InitLanguage == InitReset

NextLanguage ==
    \/ Reset_startListening
    \/ Reset_stopListening
    \/ refreshRecognition
    \/ \E s \in DOMAIN sessions : Reset_onstart(s)
    \/ \E s \in DOMAIN sessions, text \in ResultTexts, confidence \in Confidences :
           Reset_onfinalresult(s, text, confidence)
    \/ \E s \in DOMAIN sessions : Reset_onend(s)
    \/ Reset_RestartTimerFires
    \/ RefreshTimerFires
    \/ TimePasses

SpecLanguage == InitLanguage /\ [][NextLanguage]_vars

\* C28: a final result with a Devanagari character sets the tag to hi-IN, and
\* the tag never goes back from hi-IN. Violated: the script test is made only
\* if the result's confidence is not 0.
C28_DevanagariSetsHindiForGood ==
    [][ /\ \A s \in DOMAIN sessions, text \in ResultTexts,
              confidence \in Confidences :
               (Reset_onfinalresult(s, text, confidence) /\ hasDevanagari(text))
                   => detectedLanguage' = "hi-IN"
        /\ detectedLanguage = "hi-IN" => detectedLanguage' = "hi-IN" ]_vars

\* the part of C28 that holds: the tag never goes back from hi-IN, whatever
\* results and restarts follow
C28_HindiIsKept ==
    [][ detectedLanguage = "hi-IN" => detectedLanguage' = "hi-IN" ]_vars

---------------------------------------------------------------------------
(* Orchestrator: the pause trigger on the session transport                *)
(* echo-ai/src/components/VoiceAssistant.tsx, lines 153-191                *)

InitTrigger == InitSession

\* the detector of useSilenceDetection and the playback reports, with
\* useWebSocket's connect, disconnect and socket events in place of a session
\* that is just up or down
NextTrigger ==
    \/ Connect
    \/ Disconnect
    \/ \E s \in 1..MaxLive : SocketOpens(s)
    \/ \E s \in 1..MaxLive : CloseHandshakeCompletes(s)
    \/ Tick
    \/ Speak
    \/ StartListening
    \/ PlaybackStarts
    \/ PlaybackEnds

SpecTrigger == InitTrigger /\ [][NextTrigger]_vars

\* a period of the detector's interval in which onPauseDetected is called
PauseTrigger == Tick /\ justFired'

\* C29: a pause trigger sets AppState to thinking and sends pause_detected if
\* the transport is open and the assistant is not speaking, and otherwise
\* leaves AppState alone and sends nothing. Violated: the orchestrator tests
\* isConnected, which can be true while the socket in wsRef is not OPEN; the
\* state changes to thinking and sendPauseDetected drops the message.
C29_ThinkingOnlyWithMessage ==
    [][ (PauseTrigger /\ wire < MaxWire) =>
            IF RefIsOpen /\ ~isPlaying
            THEN appState' = "thinking" /\ wire' = wire + 1
            ELSE UNCHANGED <<appState, wire>> ]_vars

\* the part of C29 that holds: nothing happens unless isConnected is set and
\* the assistant is silent, and nothing is sent unless the socket is OPEN
C29_TriggerGuards ==
    [][ (PauseTrigger /\ wire < MaxWire) =>
            /\ appState' = IF isConnected /\ ~isPlaying THEN "thinking"
                           ELSE appState
            /\ wire' = IF isConnected /\ ~isPlaying /\ RefIsOpen THEN wire + 1
                       ELSE wire ]_vars

---------------------------------------------------------------------------
(* Orchestrator: the manual stop on the playback scheduler                 *)
(* echo-ai/src/components/VoiceAssistant.tsx, lines 210-215 and 346-350    *)

\* handleStopAudio with the scheduler in place: stopAudio(), whose
\* onPlaybackEnd is handlePlaybackEnd, then resetPause() (useSilenceDetection
\* 129-134). The stop button is rendered only while isAISpeaking.
ManualStop ==
    /\ isPlaying
    /\ StopPlayback
    /\ isPaused' = FALSE
    /\ pauseTriggered' = FALSE
    /\ lastSpokenAtRef' = now
    /\ silenceDuration' = 0
    /\ firedInEpisode' = IF lastSpokenAtRef # now THEN 0 ELSE firedInEpisode
    /\ playbackEndedAt' = 0
    /\ justFired' = FALSE
    /\ UNCHANGED <<transportVars, clockVars, snapshotVars, bufferVars,
                   recognitionVars, inboundVars, outboundVars, gainVars, isListening, lastSpokenAt,
                   lastSuggestionTime, isInCooldown>>

InitManualStop == InitAudio

NextManualStop ==
    \/ \E dur \in 1..MaxDuration : queueChunk(dur)
    \/ finishStream
    \/ ManualStop
    \/ \E c \in decoding : DecodeCompletes(c)
    \/ \E c \in decoding : DecodeFails(c)
    \/ \E s \in sourceNodes : SourceEnds(s)
    \/ DetachedSourceEnds
    \/ EngineClockAdvances

SpecManualStop == InitManualStop /\ [][NextManualStop]_vars

\* C30: the manual stop sets AppState to listening or idle and leaves the queue
\* and the scheduled sources empty, and no chunk queued before the stop is
\* scheduled after it. Violated: a chunk that was inside decodeAudioData at the
\* stop is scheduled when the decode resolves, and plays.
C30_ManualStopEndsPlayback ==
    [][ /\ ManualStop =>
               /\ appState' = IF isListening THEN "listening" ELSE "idle"
               /\ ~isPlaying'
               /\ chunkQueue' = << >>
               /\ sourceNodes' = {}
        /\ \A s \in sourceNodes' : s.id > stoppedAfter' ]_vars

\* the part of C30 that holds: the step of the manual stop itself
C30_ManualStopStep ==
    [][ ManualStop =>
            /\ appState' = IF isListening THEN "listening" ELSE "idle"
            /\ ~isPlaying'
            /\ chunkQueue' = << >>
            /\ sourceNodes' = {} ]_vars

---------------------------------------------------------------------------
(* Session transport: inbound text frames, ws.onmessage (113-167) *)

\* text frames the peer sends: one that is not JSON, a JSON message of a type
\* the switch does not know, and the end-of-stream message
FrameKinds == {"malformed", "unknown", "suggestion_end"}

\* JSON.parse (122); ParsesAnything is a parser that never throws
ParsesAnything(kind) == TRUE

Parses(kind) == kind # "malformed"

\* the callbacks the handler invokes for a text frame (121-166)
Callbacks(kind) ==
    IF ~Parses(kind) THEN {}
    ELSE IF kind = "suggestion_end" THEN {"onStreamEnd", "onMessage"}
    ELSE {"onMessage"}

\* ws.onmessage of socket s for a text frame. onStreamEnd is the orchestrator's
\* handleStreamEnd, which calls finishStream.
InboundFrame(s, kind) ==
    /\ s \in DOMAIN sockets
    /\ sockets[s] \in {"open", "closing"}
    /\ lastFrame' = kind
    /\ delivered' = Callbacks(kind)
    /\ isStreaming' = IF "onStreamEnd" \in Callbacks(kind) THEN FALSE
                      ELSE isStreaming
    /\ UNCHANGED <<transportVars, clockVars, pauseVars, snapshotVars,
                   bufferVars, recognitionVars, outboundVars, gainVars>>
    /\ UNCHANGED <<chunkQueue, decoding, sourceNodes, detached, nextPlayTime,
                   playbackStarted, isProcessing, currentTime, chunksQueued,
                   timeline, stoppedAfter, stoppedPlayback, responseOf,
                   everScheduled>>

\* ws.onmessage of socket s for a binary frame that decodes to dur ticks of
\* audio (115-119): onAudioChunk is the orchestrator's handleAudioChunk
\* (VoiceAssistant.tsx 70-72), which calls queueChunk
BinaryFrame(s, dur) ==
    /\ s \in DOMAIN sockets
    /\ sockets[s] \in {"open", "closing"}
    /\ lastFrame' = "binary"
    /\ delivered' = {"onAudioChunk"}
    /\ QueueChunk(dur)
    /\ UNCHANGED <<transportVars, clockVars, snapshotVars, bufferVars,
                   recognitionVars, outboundVars, gainVars, isListening,
                   lastSpokenAt, lastSpokenAtRef, pauseTriggered,
                   lastSuggestionTime, silenceDuration, isPaused, isInCooldown,
                   justFired, firedInEpisode, playbackEndedAt>>

InitInbound == InitSession

NextInbound ==
    \/ NextTransport
    \/ \E s \in 1..MaxLive, kind \in FrameKinds : InboundFrame(s, kind)

SpecInbound == InitInbound /\ [][NextInbound]_vars

\* C20: a text frame that fails to parse changes neither the connection status,
\* the socket, the reconnect accounting nor the playback state, and its handler
\* invokes no callback.
C20_MalformedFrameIgnored ==
    [][ \A s \in 1..MaxLive :
            InboundFrame(s, "malformed") =>
                /\ delivered' = {}
                /\ UNCHANGED <<transportVars, audioVars, isPlaying, appState>> ]_vars

\* a malformed frame was the latest to arrive on the connected, open socket
C20_Witness ==
    /\ lastFrame = "malformed"
    /\ delivered = {}
    /\ isConnected
    /\ wsRef \in DOMAIN sockets
    /\ sockets[wsRef] = "open"

---------------------------------------------------------------------------
(* Session transport: inbound binary frames and the playback queue *)

InitBinary == InitSession

NextBinary ==
    \/ Connect
    \/ SendPauseDetected
    \/ \E s \in 1..MaxLive : SocketOpens(s)
    \/ \E s \in 1..MaxLive, dur \in 1..MaxDuration : BinaryFrame(s, dur)
    \/ \E s \in 1..MaxLive : InboundFrame(s, "suggestion_end")
    \/ \E c \in decoding : DecodeCompletes(c)
    \/ \E s \in sourceNodes : SourceEnds(s)
    \/ EngineClockAdvances

SpecBinary == InitBinary /\ [][NextBinary]_vars

\* no pause_detected frame has been sent on any socket: no response is due
NoRequestSent == wire = 0

\* C34: a binary frame that arrives while no audio is expected is not handed to
\* the playback queue, and the connection stays as it is. Violated: every
\* binary frame goes to queueChunk.
C34_UnexpectedBinaryIgnored ==
    [][ \A s \in 1..MaxLive, dur \in 1..MaxDuration :
            (NoRequestSent /\ BinaryFrame(s, dur)) =>
                /\ UNCHANGED <<chunkQueue, decoding, chunksQueued, isStreaming,
                               isProcessing>>
                /\ UNCHANGED transportVars ]_vars

\* the part of C34 that holds: a binary frame leaves the connection alone
C34_BinaryKeepsConnection ==
    [][ \A s \in 1..MaxLive, dur \in 1..MaxDuration :
            BinaryFrame(s, dur) => UNCHANGED transportVars ]_vars

---------------------------------------------------------------------------
(* Orchestrator: one request and its response, with the faults of playback *)
(* echo-ai/src/components/VoiceAssistant.tsx, lines 53-72 and 153-208      *)

\* the detector invokes onPauseDetected: handlePauseDetected on its own
PauseDetected ==
    /\ handlePauseDetected
    /\ UNCHANGED <<sockets, wsRef, refTimer, orphanTimers, reconnectAttempts,
                   isConnected, isConnecting, error, userDisconnected,
                   userCalls, closesSinceOpen, lastCloseCode>>
    /\ UNCHANGED <<clockVars, snapshotVars, deviceVars>>
    /\ UNCHANGED <<isListening, lastSpokenAt, lastSpokenAtRef, pauseTriggered,
                   lastSuggestionTime, silenceDuration, isPaused, isInCooldown,
                   isPlaying, justFired, firedInEpisode, playbackEndedAt>>

\* the first trigger of the session
FirstPauseDetected ==
    /\ wire = 0
    /\ PauseDetected

\* the server answers the request with binary frames on the session's socket
ResponseChunk(dur) ==
    /\ wire > 0
    /\ lastFrame # "suggestion_end"
    /\ BinaryFrame(wsRef, dur)

\* and then, once, with suggestion_end
ResponseEnds ==
    /\ wire > 0
    /\ isStreaming
    /\ lastFrame # "suggestion_end"
    /\ InboundFrame(wsRef, "suggestion_end")

InitFault == InitAudio

NextFault ==
    \/ TransportOpens
    \/ FirstPauseDetected
    \/ \E dur \in 1..MaxDuration : ResponseChunk(dur)
    \/ ResponseEnds
    \/ \E c \in decoding : DecodeCompletes(c)
    \/ \E c \in decoding : DecodeFails(c)
    \/ \E s \in sourceNodes : SourceEnds(s)
    \/ EngineClockAdvances

SpecFault == InitFault /\ [][NextFault]_vars

\* the engine's obligations; the user, the detector and the server have none
SpecFaultLive == SpecFault /\ AudioEngineFairness

\* one request was sent, chunks of its response arrived, the end of the stream
\* was signalled and nothing is left to decode or to play
ResponseIsOver ==
    /\ wire = 1
    /\ chunksQueued > 0
    /\ PlaybackOver

\* AppState shows no activity, or the transport's error is shown
AtRestOrFailed == appState \in {"listening", "idle"} \/ error # NoError

\* C33: when the response is over while AppState is thinking or speaking,
\* AppState eventually returns to listening or idle, or an error is shown.
\* Violated: with every decode rejected nothing leaves 'thinking', and with the
\* end of the stream signalled after the last source ended nothing leaves
\* 'speaking'.
C33_NoFaultStallsForever ==
    (appState \in {"thinking", "speaking"} /\ ResponseIsOver) ~> AtRestOrFailed

\* the two cases of C33 one by one
C33_ThinkingDoesNotStall ==
    (appState = "thinking" /\ ResponseIsOver) ~> AtRestOrFailed
C33_SpeakingDoesNotStall ==
    (appState = "speaking" /\ ResponseIsOver) ~> AtRestOrFailed

=============================================================================
